---- MODULE Spec2Model ----
(***************************************************************************)
(* Verification model of the VPN connection orchestrator                   *)
(* (app/vpn_connection.py), the poll cycle and the background poller       *)
(* (app/poll.py) of Prognoza-AI-Solar.                                     *)
(*                                                                         *)
(* Time is the monotonic clock counted in quarter seconds, so that the     *)
(* backoff schedule 2.0, 3.0, 4.5, 6.75, 10.0 s is 8, 12, 18, 27, 40.      *)
(***************************************************************************)
EXTENDS Integers, Sequences, FiniteSets, TLC

VARIABLES
    \* ---- VPNConnection._test_umg_connectivity (one activation) ----
    now,            \* time.monotonic(), in quarter seconds
    v_pc,           \* "idle" | "loop" | "done"
    v_caller,       \* who called: "none" | "test" | "status" | "connect"
    timeout_s,      \* argument timeout_s (quarter seconds)
    min_attempts,   \* argument min_attempts
    deadline,       \* local deadline
    attempts,       \* local attempts
    delay,          \* local delay
    ping_ok,        \* local ping_ok
    tcp_ok,         \* local tcp_ok
    v_ret,          \* returned tuple <<success, ping_ok, tcp_ok>>; <<>> before
    v_log,          \* history: the <<ping, tcp>> outcome of every attempt
    \* ---- the host: process table and network interfaces ----
    proc,           \* pid of the openvpn process serving the profile, or None
    iface,          \* IPv4 address of the TUN/TAP adapter, or None
    \* ---- VPNConnection (the instance poll_once creates) ----
    c_pc,           \* "idle" | "status_verify" | "wait_ip" | "connect_verify"
    c_status,       \* local status / current record under construction
    w_deadline,     \* _wait_for_ip: deadline
    w_delay,        \* _wait_for_ip: delay
    last_status,    \* VPNConnection._last_status: <<>> for {}, or <<record>>
    \* ---- poll_once (one activation) ----
    p_pc,           \* "idle" | "status" | "connect" | "connected" | "health"
                    \* | "sleep" | "read" | "export" | "finally" | "teardown"
                    \* | "done"
    started_vpn,    \* local started_vpn
    status_before,  \* local status_before: <<>> before the call, or <<record>>
    connect_result, \* local connect_result: <<>> before the call, or <<record>>
    p_exit,         \* how the activation ends: "none" | "returned" | a failure
    p_raised,       \* the exception poll_once propagates, or None
    p_target,       \* argument target_time: <<>> for None, or <<datetime>>
    row_timestamp,  \* row["timestamp"] of the exported row: <<>> before the
                    \* export, or <<datetime>>
    calls,          \* history: calls made by this activation, per operation
    \* ---- BackgroundPoller (the BACKGROUND_POLLER singleton) ----
    stop_event,     \* self._stop_event is set
    thread_ref,     \* self._thread: {} for None, or {thread}
    last_error,     \* self.last_error
    last_payload,   \* self.last_payload
    \* ---- the poll threads start() has spawned: _run / poll_loop ----
    t_pc,           \* per thread: "unborn" | "top" | "wake" | "connecting"
                    \* | "sleeping" | "reading" | "pause" | "fin" | "fin_clear"
                    \* | "dead"
    t_align,        \* per thread: argument align_to_minute
    t_cycles,       \* per thread: argument cycles, <<>> for None or <<n>>
    t_executed,     \* per thread: local executed
    late,           \* history: a thread began a sleep slice although the
                    \* stop event was set
    \* ---- the callers of start() and stop() (request handlers) ----
    k_pc,           \* per caller: "idle" | "joining" | "returned"
    k_join,         \* per caller: local thread of stop(), {} or {thread}
    k_ret,          \* per caller: what the call returned or raised
    k_alive,        \* history, per caller: a thread was alive inside
                    \* poll_loop when the call took the lock
    h_raised,       \* history: <<thread, exception text>> of every cycle
                    \* that raised since the last successful start()
    \* ---- the RuntimeEstimate and the callers of _update_estimate ----
    estimate,       \* _runtime_estimate_s, in units of 1/Scale second
    u_pc,           \* per caller: "idle" | "locking" (past the duration
                    \* test, about to take _ESTIMATE_LOCK)
    u_arg,          \* per caller: argument duration_s, in seconds
    updates,        \* number of _update_estimate calls made so far
    e_last,         \* history: <<estimate before, duration_s>> of the last
                    \* call that finished; <<>> before
    \* ---- VPNConnection objects used side by side on one host ----
    umg,            \* how the device answers now: <<ping answered, TCP
                    \* port open>>
    s_last,         \* per object: _last_status, <<>> for {} or <<record>>
    s_ret,          \* history, per object: what status() returned to it
                    \* in the environment as it is now; <<>> when it has
                    \* not asked since the environment last changed
    s_call,         \* history, per object: its latest call, "none" |
                    \* "connect" | "disconnect" | "status"
    s_seen,         \* history, per object: the call it had made before the
                    \* status() call of s_ret
    \* ---- vpn.find_openvpn (one activation) ----
    f_host,         \* what the function reads: the platform, the override
                    \* environment variables and the files that exist
    f_pc,           \* "idle" | "gui" | "cli" | "done"
    f_gui,          \* local gui_path, or None
    f_cli,          \* local cli_path, or None
    f_out,          \* the returned dict: <<>> before, or <<record>>
    \* ---- vpn.start_vpn (one activation; the host is f_host) ----
    sv_in,          \* argument ovpn_path and what the call finds: the
                    \* configuration files, the GUI profile directories
    sv_pc,          \* "idle" | "chosen" | "gui_wait" | "gui_after" | "done"
    sv_det,         \* local detection: <<>> before, or <<record>>
    sv_sel,         \* locals selected_method, error_message: <<>> before,
                    \* or <<method, message>>
    sv_left,        \* seconds left until the local deadline
    sv_cmds,        \* history: GUI connect commands issued, workers spawned
    sv_out,         \* the returned dict: <<>> before, or <<record>>
    sv_raised,      \* the exception the call propagates, or None
    \* ---- poll_loop with align_to_minute (wall clock in seconds) ----
    a_pc,           \* "top" | "sleep" | "poll" | "done"
    a_interval,     \* interval_s
    a_clock,        \* the wall clock
    a_first,        \* history: the loop's first clock reading, <<>> before
    a_base,         \* base_time: <<>> for None, or <<t>>
    a_executed,     \* executed
    a_target,       \* target_time: <<>> for None, or <<t>>
    a_wake,         \* wait_start: <<>> before, or <<t>>
    \* ---- overlapping poll_once activations on the one tunnel (proc) ----
    y_pc,           \* per activation: "idle" | "connecting" | "body" |
                    \* "finally" | "done"
    y_started,      \* per activation: its local started_vpn
    \* ---- the accesses to the shared state, lock by lock ----
    x_outcome,      \* how the poll thread's cycle ends: "payload" | "error"
    x_pc,           \* per actor: the index of its next step
    x_holder,       \* per lock: the actor that holds it, or None
    x_access,       \* history: the last access, <<>> before, or
                    \* <<[actor, object, held]>>
    \* ---- the CLI tunnel of vpn.py: worker, log file, PID file ----
    g_log,          \* the log file: its lines, oldest first, each with the
                    \* session that wrote it
    g_session,      \* the number of the last worker spawned (0: none); a
                    \* worker's pid stands for its session
    g_alive,        \* the last worker spawned is running
    g_pidfile,      \* the PID file: <<>> when absent, or <<pid>>
    g_unlink,       \* history: what the last _remove_pid_file did:
                    \* "none" | "absent" | "removed" | "failed"
    g_state,        \* the last _CliState built in the present environment:
                    \* <<>> for none, or <<record>>
    g_out           \* the dict vpn_status returned with it, or <<>>

verifyVars == <<now, v_pc, v_caller, timeout_s, min_attempts, deadline,
                attempts, delay, ping_ok, tcp_ok, v_ret, v_log>>

hostVars == <<proc, iface>>

connVars == <<c_pc, c_status, w_deadline, w_delay, last_status>>

pollVars == <<p_pc, started_vpn, status_before, connect_result, p_exit,
              p_raised, p_target, row_timestamp, calls>>

pollerVars == <<stop_event, thread_ref, last_error, last_payload, t_pc,
                t_align, t_cycles, t_executed, late, k_pc, k_join,
                k_ret, k_alive, h_raised>>

estimateVars == <<estimate, u_pc, u_arg, updates, e_last>>

statusVars == <<umg, s_last, s_ret, s_call, s_seen>>

findVars == <<f_host, f_pc, f_gui, f_cli, f_out>>

startVars == <<sv_in, sv_pc, sv_det, sv_sel, sv_left, sv_cmds, sv_out,
               sv_raised>>

alignVars == <<a_pc, a_interval, a_clock, a_first, a_base, a_executed,
               a_target, a_wake>>

shareVars == <<y_pc, y_started>>

\* the state of the functions that are checked on their own
accessVars == <<x_outcome, x_pc, x_holder, x_access>>

cliVars == <<g_log, g_session, g_alive, g_pidfile, g_unlink, g_state, g_out>>

unitVars == <<estimateVars, statusVars, findVars, startVars, alignVars,
              shareVars, accessVars, cliVars>>

vars == <<verifyVars, hostVars, connVars, pollVars, pollerVars, unitVars>>

\* what _test_umg_connectivity itself never touches
nonVerifyVars == <<hostVars, connVars, pollVars, pollerVars, unitVars>>

\* what _update_estimate never touches
nonEstimateVars == <<verifyVars, hostVars, connVars, pollVars, pollerVars,
                     statusVars, findVars, startVars, alignVars, shareVars,
                  accessVars, cliVars>>

\* what a VPNConnection object used on its own never touches, the host
\* apart
nonStatusVars == <<verifyVars, connVars, pollVars, pollerVars, estimateVars,
                   findVars, startVars, alignVars, shareVars,
                  accessVars, cliVars>>

\* what find_openvpn never touches
nonFindVars == <<verifyVars, hostVars, connVars, pollVars, pollerVars,
                 estimateVars, statusVars, startVars, alignVars, shareVars,
                  accessVars, cliVars>>

\* what start_vpn never touches
nonStartVars == <<verifyVars, hostVars, connVars, pollVars, pollerVars,
                  estimateVars, statusVars, findVars, alignVars, shareVars,
                  accessVars, cliVars>>

\* what the aligned loop's schedule never touches
nonAlignVars == <<verifyVars, hostVars, connVars, pollVars, pollerVars,
                  estimateVars, statusVars, findVars, startVars, shareVars,
                  accessVars, cliVars>>

\* what overlapping activations leave alone: all but the tunnel's worker
nonShareVars == <<verifyVars, iface, connVars, pollVars, pollerVars,
                  estimateVars, statusVars, findVars, startVars, alignVars,
                  accessVars, cliVars>>

\* what the background poller's own steps never touch
cycleVars == <<verifyVars, hostVars, connVars, pollVars>>

None == "None"

Min(a, b) == IF a <= b THEN a ELSE b
Max(a, b) == IF a >= b THEN a ELSE b

(***************************************************************************)
(* Bounds of the model.                                                    *)
(***************************************************************************)
\* largest min_attempts argument tried on _test_umg_connectivity
MaxMinAttempts == 3
\* timeout_s arguments tried (quarter seconds): 0 s, 1 s, 5 s
TimeoutChoices == {0, 4, 20}
\* how long one attempt's two probes may take (quarter seconds): the ping
\* waits up to 1 s, the TCP connect up to 3 s
ProbeDurations == {0, 4, 16}

(***************************************************************************)
(* Program constants of _test_umg_connectivity / _wait_for_ip.             *)
(***************************************************************************)
\* delay = 2.0
InitialDelay == 8
\* min(delay * 1.5, 10.0)
MaxDelay == 40
\* max(0.5, deadline - time.monotonic())
MinSleep == 2

\* delay = min(delay * 1.5, 10.0)
NextDelay(d) == Min((d * 3) \div 2, MaxDelay)

\* sleep_for = min(delay, max(0.5, deadline - time.monotonic()))
SleepFor(d, dl, t) == Min(d, Max(MinSleep, dl - t))

\* while time.monotonic() < deadline or attempts < min_attempts
LoopCondition(t, dl, n, m) == t < dl \/ n < m

\* mutant: success as soon as one probe passes
ProbeSuccessEither(p, t) == p \/ t

\* if ping_ok and tcp_ok: return True, ping_ok, tcp_ok
ProbeSuccess(p, t) == p /\ t

(***************************************************************************)
(* _test_umg_connectivity: entry (lines 160-164).                          *)
(***************************************************************************)
TestUmgEnter(caller, to, m) ==
    /\ v_pc = "idle"
    /\ v_pc' = "loop"
    /\ v_caller' = caller
    /\ timeout_s' = to
    /\ min_attempts' = m
    /\ deadline' = now + to
    /\ attempts' = 0
    /\ delay' = InitialDelay
    /\ ping_ok' = FALSE
    /\ tcp_ok' = FALSE
    /\ v_ret' = <<>>
    /\ v_log' = <<>>
    /\ UNCHANGED now

(***************************************************************************)
(* The caller has taken the returned tuple: the activation's locals are    *)
(* gone.                                                                   *)
(***************************************************************************)
TestUmgLeave ==
    /\ v_pc' = "idle"
    /\ v_caller' = "none"
    /\ timeout_s' = 0
    /\ min_attempts' = 0
    /\ deadline' = 0
    /\ attempts' = 0
    /\ delay' = InitialDelay
    /\ ping_ok' = FALSE
    /\ tcp_ok' = FALSE
    /\ v_ret' = <<>>
    /\ v_log' = <<>>

(***************************************************************************)
(* _test_umg_connectivity: the loop test fails, return False (line 181).   *)
(***************************************************************************)
TestUmgExhausted ==
    /\ v_pc = "loop"
    /\ ~LoopCondition(now, deadline, attempts, min_attempts)
    /\ v_pc' = "done"
    /\ v_ret' = <<FALSE, ping_ok, tcp_ok>>
    /\ UNCHANGED <<now, v_caller, timeout_s, min_attempts, deadline, attempts,
                   delay, ping_ok, tcp_ok, v_log>>
    /\ UNCHANGED nonVerifyVars

(***************************************************************************)
(* _test_umg_connectivity: one iteration of the loop (lines 166-179): the  *)
(* two probes, the success return, the deadline break, the backoff sleep.  *)
(***************************************************************************)
TestUmgAttempt ==
    /\ v_pc = "loop"
    /\ LoopCondition(now, deadline, attempts, min_attempts)
    /\ \E p \in BOOLEAN, t \in BOOLEAN, d \in ProbeDurations :
         LET after == now + d IN
         /\ attempts' = attempts + 1
         /\ ping_ok' = p
         /\ tcp_ok' = t
         /\ v_log' = Append(v_log, <<p, t>>)
         /\ IF ProbeSuccess(p, t)
              THEN /\ v_pc' = "done"
                   /\ v_ret' = <<TRUE, p, t>>
                   /\ now' = after
                   /\ UNCHANGED delay
              ELSE IF after >= deadline
                THEN /\ v_pc' = "done"
                     /\ v_ret' = <<FALSE, p, t>>
                     /\ now' = after
                     /\ UNCHANGED delay
                ELSE /\ v_pc' = "loop"
                     /\ v_ret' = <<>>
                     /\ now' = after + SleepFor(delay, deadline, after)
                     /\ delay' = NextDelay(delay)
    /\ UNCHANGED <<v_caller, timeout_s, min_attempts, deadline>>
    /\ UNCHANGED nonVerifyVars

(***************************************************************************)
(* Harness of the pure-function specification: call                        *)
(* _test_umg_connectivity with arguments from the bounded sets, and take   *)
(* its result.                                                             *)
(***************************************************************************)
TestCall ==
    /\ v_caller = "none"
    /\ \E to \in TimeoutChoices, m \in 1..MaxMinAttempts :
         TestUmgEnter("test", to, m)
    /\ UNCHANGED nonVerifyVars

TestReturn ==
    /\ v_pc = "done"
    /\ v_caller = "test"
    /\ TestUmgLeave
    /\ now' = 0
    /\ UNCHANGED nonVerifyVars

VerifyIdle ==
    /\ now = 0
    /\ v_pc = "idle"
    /\ v_caller = "none"
    /\ timeout_s = 0
    /\ min_attempts = 0
    /\ deadline = 0
    /\ attempts = 0
    /\ delay = InitialDelay
    /\ ping_ok = FALSE
    /\ tcp_ok = FALSE
    /\ v_ret = <<>>
    /\ v_log = <<>>

(***************************************************************************)
(* The host, as the code observes it through psutil: the openvpn process   *)
(* of the profile may exit on its own, the adapter's address may come or   *)
(* go, between any two observations.                                       *)
(***************************************************************************)
ProfilePid == "pid-openvpn"
VpnIp == "10.8.0.6"

HostNext(p) == {<<p2, i2>> : p2 \in {p, None}, i2 \in {None, VpnIp}}

\* the timeout of status()'s single probe round: timeout_s=5
StatusTimeout == 20
\* min_attempts of status()
StatusMinAttempts == 1
\* min_attempts of connect()
ConnectMinAttempts == 3
\* settings.CONNECT_TIMEOUT_S (a deployment setting), in quarter seconds
ConnectTimeout == 20
\* openvpn_manager.start: time.sleep(2) before the worker is looked up
StartSettle == 8
\* _wait_for_ip: delay = 2.0
WaitInitialDelay == 8
\* how far ahead of the call the target_time of a poll_once may lie
TargetLeads == {0, 24}

\* an aware datetime: the instant t (on the model's clock) and the zone it
\* is expressed in
Zones == {"local", "utc"}

Datetime(t, z) == [t |-> t, tz |-> z]

\* datetime.astimezone(): the same instant, expressed in the local zone
AsLocal(dt) == [t |-> dt.t, tz |-> "local"]

\* poll_once, lines 70-72: scheduled_time
ScheduledTime(target) ==
    IF target = <<>> THEN <<>> ELSE <<AsLocal(target[1])>>

\* mutant: the row stamped with the time of the export
ExportTimestampNow(override, t) == Datetime(t, "local")

\* export_csv, lines 186-190:
\*   timestamp = timestamp_override or datetime.now(timezone.utc).astimezone()
\* and the conversion to the local zone
ExportTimestamp(override, t) ==
    IF override # <<>> THEN AsLocal(override[1])
                       ELSE AsLocal(Datetime(t, "utc"))

NoChecks == [has |-> FALSE, ping |-> FALSE, tcp |-> FALSE]
Checks(p, t) == [has |-> TRUE, ping |-> p, tcp |-> t]

\* connect(): the status dict as initialised at lines 32-40
InitialStatus ==
    [is_connected |-> FALSE, vpn_ip |-> None, umg_ok |-> FALSE, pid |-> None,
     checks |-> NoChecks, error |-> None]

\* disconnect(): the status dict stored at lines 112-120
DisconnectedStatus ==
    [is_connected |-> FALSE, vpn_ip |-> None, umg_ok |-> FALSE, pid |-> None,
     checks |-> Checks(FALSE, FALSE), error |-> None]

\* mutant: connected as soon as the adapter has an address
ConnectedFlagByAddress(ip, success) == ip # None

\* connect(): status["is_connected"] = bool(vpn_ip and success)
ConnectedFlag(ip, success) == ip # None /\ success

\* status(): "is_connected": bool(is_running and success and vpn_ip)
StatusConnectedFlag(pid, ip, success) == pid # None /\ success /\ ip # None

\* status(): the dict built at lines 135-143
StatusRecord(pid, ip, ret) ==
    [is_connected |-> StatusConnectedFlag(pid, ip, ret[1]), vpn_ip |-> ip,
     umg_ok |-> ret[1], pid |-> pid, checks |-> Checks(ret[2], ret[3]),
     error |-> None]

\* connect(): the except clause, status["error"] = str(exc)
WithError(st, msg) == [st EXCEPT !.error = msg]

Called(op) == calls' = [calls EXCEPT ![op] = @ + 1]

NoCalls ==
    [status |-> 0, connect |-> 0, health |-> 0, read |-> 0, export |-> 0,
     update_estimate |-> 0, disconnect |-> 0, stop_all |-> 0]

(***************************************************************************)
(* poll_once, lines 58-62: create the VPNConnection and call status().     *)
(***************************************************************************)
PollOnceBegin ==
    /\ p_pc = "idle"
    /\ c_pc = "idle"
    /\ v_pc = "idle"
    /\ p_pc' = "status"
    /\ started_vpn' = FALSE
    /\ status_before' = <<>>
    /\ connect_result' = <<>>
    /\ p_exit' = "none"
    /\ p_raised' = None
    /\ calls' = NoCalls
    /\ last_status' = <<>>
    /\ now' = 0
    /\ p_target' \in {<<>>} \cup {<<Datetime(lead, z)>> : lead \in TargetLeads,
                                                         z \in Zones}
    /\ row_timestamp' = <<>>
    /\ UNCHANGED <<v_pc, v_caller, timeout_s, min_attempts, deadline, attempts,
                   delay, ping_ok, tcp_ok, v_ret, v_log>>
    /\ UNCHANGED <<hostVars, c_pc, c_status, w_deadline, w_delay>>
    /\ UNCHANGED <<pollerVars, unitVars>>

(***************************************************************************)
(* VPNConnection.status(), lines 125-133: read the pid and the address;    *)
(* probe the device only when both are there.                              *)
(***************************************************************************)
StatusProbe ==
    /\ p_pc = "status"
    /\ c_pc = "idle"
    /\ \E h \in HostNext(proc) :
         /\ h[1] # None /\ h[2] # None
         /\ proc' = h[1]
         /\ iface' = h[2]
         /\ c_status' = [InitialStatus EXCEPT !.pid = h[1], !.vpn_ip = h[2]]
    /\ TestUmgEnter("status", StatusTimeout, StatusMinAttempts)
    /\ c_pc' = "status_verify"
    /\ Called("status")
    /\ UNCHANGED <<w_deadline, w_delay, last_status>>
    /\ UNCHANGED <<p_pc, started_vpn, status_before, connect_result, p_exit,
                   p_raised, p_target, row_timestamp>>
    /\ UNCHANGED <<pollerVars, unitVars>>

(***************************************************************************)
(* VPNConnection.status(), lines 125-145, no process or no address: the    *)
(* record is built without probing.                                        *)
(***************************************************************************)
StatusNoProbe ==
    /\ p_pc = "status"
    /\ c_pc = "idle"
    /\ \E h \in HostNext(proc) :
         /\ ~(h[1] # None /\ h[2] # None)
         /\ proc' = h[1]
         /\ iface' = h[2]
         /\ LET rec == StatusRecord(h[1], h[2], <<FALSE, FALSE, FALSE>>) IN
            /\ last_status' = <<rec>>
            /\ status_before' = <<rec>>
    /\ Called("status")
    /\ p_pc' = "status_returned"
    /\ UNCHANGED <<c_pc, c_status, w_deadline, w_delay>>
    /\ UNCHANGED <<started_vpn, connect_result, p_exit, p_raised, p_target, row_timestamp>>
    /\ UNCHANGED verifyVars
    /\ UNCHANGED <<pollerVars, unitVars>>

(***************************************************************************)
(* VPNConnection.status(), lines 133-145: the probe round is over.         *)
(***************************************************************************)
StatusReturn ==
    /\ c_pc = "status_verify"
    /\ v_pc = "done"
    /\ v_caller = "status"
    /\ LET rec == StatusRecord(c_status.pid, c_status.vpn_ip, v_ret) IN
       /\ last_status' = <<rec>>
       /\ status_before' = <<rec>>
    /\ c_pc' = "idle"
    /\ c_status' = InitialStatus
    /\ TestUmgLeave
    /\ p_pc' = "status_returned"
    /\ UNCHANGED <<now, hostVars, w_deadline, w_delay>>
    /\ UNCHANGED <<started_vpn, connect_result, p_exit, p_raised, calls,
                   p_target, row_timestamp>>
    /\ UNCHANGED <<pollerVars, unitVars>>

(***************************************************************************)
(* poll_once, lines 61-64: connect only when status() said not connected.  *)
\* mutant: the cycle connects whatever status() reported
AlreadyConnectedNever(status) == FALSE

\* poll_once, line 61: bool(status_before.get("is_connected"))
AlreadyConnected(status) == status.is_connected

(***************************************************************************)
PollAfterStatus ==
    /\ p_pc = "status_returned"
    /\ p_pc' = IF AlreadyConnected(status_before[1]) THEN "body" ELSE "connect"
    /\ UNCHANGED <<started_vpn, status_before, connect_result, p_exit,
                   p_raised, calls, p_target, row_timestamp>>
    /\ UNCHANGED <<verifyVars, hostVars, connVars>>
    /\ UNCHANGED <<pollerVars, unitVars>>

(***************************************************************************)
(* VPNConnection.connect(), lines 31-64, a step before the tunnel start    *)
(* raises: profile preparation, or OpenVPNManager.start (executable not    *)
(* found, interactive service, Popen).  The except clause records it and   *)
(* the finally clause stores the record (lines 97-104).                    *)
(***************************************************************************)
ConnectSetupFails ==
    /\ p_pc = "connect"
    /\ c_pc = "idle"
    /\ \E msg \in {"prepare profile failed", "tunnel start failed"} :
         LET rec == WithError(InitialStatus, msg) IN
         /\ last_status' = <<rec>>
         /\ connect_result' = <<rec>>
    /\ Called("connect")
    /\ p_pc' = "connect_returned"
    /\ UNCHANGED <<c_pc, c_status, w_deadline, w_delay>>
    /\ UNCHANGED <<started_vpn, status_before, p_exit, p_raised, p_target, row_timestamp>>
    /\ UNCHANGED <<verifyVars, hostVars>>
    /\ UNCHANGED <<pollerVars, unitVars>>

(***************************************************************************)
(* VPNConnection.connect(), lines 31-66: the profile is prepared and       *)
(* OpenVPNManager.start returns; the worker may or may not be there when   *)
(* it is looked up.  Then _wait_for_ip is entered (lines 148-149).         *)
(***************************************************************************)
ConnectStart ==
    /\ p_pc = "connect"
    /\ c_pc = "idle"
    /\ \E pid \in {None, ProfilePid} :
         /\ proc' = pid
         /\ c_status' = [InitialStatus EXCEPT !.pid = pid]
    /\ now' = now + StartSettle
    /\ w_deadline' = now' + ConnectTimeout
    /\ w_delay' = WaitInitialDelay
    /\ c_pc' = "wait_ip"
    /\ Called("connect")
    /\ UNCHANGED <<iface, last_status>>
    /\ UNCHANGED <<p_pc, started_vpn, status_before, connect_result, p_exit,
                   p_raised, p_target, row_timestamp>>
    /\ UNCHANGED <<v_pc, v_caller, timeout_s, min_attempts, deadline, attempts,
                   delay, ping_ok, tcp_ok, v_ret, v_log>>
    /\ UNCHANGED <<pollerVars, unitVars>>

(***************************************************************************)
(* _wait_for_ip, lines 150-156, one iteration without an address: sleep    *)
(* and lengthen the delay.                                                 *)
(***************************************************************************)
WaitForIpSleep ==
    /\ c_pc = "wait_ip"
    /\ now < w_deadline
    /\ \E h \in HostNext(proc) :
         /\ h[2] = None
         /\ proc' = h[1]
         /\ iface' = h[2]
    /\ now' = now + w_delay
    /\ w_delay' = NextDelay(w_delay)
    /\ UNCHANGED <<c_pc, c_status, w_deadline, last_status>>
    /\ UNCHANGED pollVars
    /\ UNCHANGED <<v_pc, v_caller, timeout_s, min_attempts, deadline, attempts,
                   delay, ping_ok, tcp_ok, v_ret, v_log>>
    /\ UNCHANGED <<pollerVars, unitVars>>

(***************************************************************************)
(* _wait_for_ip returns an address (lines 151-154); connect() stores it    *)
(* and enters _test_umg_connectivity (lines 66-76).                        *)
(***************************************************************************)
WaitForIpFound ==
    /\ c_pc = "wait_ip"
    /\ now < w_deadline
    /\ \E h \in HostNext(proc) :
         /\ h[2] # None
         /\ proc' = h[1]
         /\ iface' = h[2]
         /\ c_status' = [c_status EXCEPT !.vpn_ip = h[2]]
    /\ TestUmgEnter("connect", ConnectTimeout, ConnectMinAttempts)
    /\ c_pc' = "connect_verify"
    /\ UNCHANGED <<w_deadline, w_delay, last_status>>
    /\ UNCHANGED pollVars
    /\ UNCHANGED <<pollerVars, unitVars>>

\* mutant: an adapter without address does not end the call
WaitForIpTimeoutIgnored ==
    /\ c_pc = "wait_ip"
    /\ ~(now < w_deadline)
    /\ TestUmgEnter("connect", ConnectTimeout, ConnectMinAttempts)
    /\ c_pc' = "connect_verify"
    /\ UNCHANGED <<c_status, w_deadline, w_delay, last_status>>
    /\ UNCHANGED pollVars
    /\ UNCHANGED hostVars
    /\ UNCHANGED <<pollerVars, unitVars>>

(***************************************************************************)
(* _wait_for_ip returns None (line 157); connect() raises TimeoutError     *)
(* (lines 68-71), records it and returns (lines 97-104).                   *)
(***************************************************************************)
WaitForIpTimeout ==
    /\ c_pc = "wait_ip"
    /\ ~(now < w_deadline)
    /\ LET rec == WithError(c_status, "timed out waiting for address") IN
       /\ last_status' = <<rec>>
       /\ connect_result' = <<rec>>
    /\ c_pc' = "idle"
    /\ c_status' = InitialStatus
    /\ w_deadline' = 0
    /\ w_delay' = WaitInitialDelay
    /\ p_pc' = "connect_returned"
    /\ UNCHANGED <<started_vpn, status_before, p_exit, p_raised, calls,
                   p_target, row_timestamp>>
    /\ UNCHANGED <<verifyVars, hostVars>>
    /\ UNCHANGED <<pollerVars, unitVars>>

(***************************************************************************)
(* VPNConnection.connect(), lines 73-104: the verification is over; fill   *)
(* in the record, look the pid up when start() did not give one, store     *)
(* and return the record.                                                  *)
(***************************************************************************)
ConnectReturn ==
    /\ c_pc = "connect_verify"
    /\ v_pc = "done"
    /\ v_caller = "connect"
    /\ \E h \in HostNext(proc) :
         /\ proc' = h[1]
         /\ iface' = h[2]
         /\ LET rec == [c_status EXCEPT
                          !.checks = Checks(v_ret[2], v_ret[3]),
                          !.umg_ok = v_ret[1],
                          !.is_connected = ConnectedFlag(c_status.vpn_ip, v_ret[1]),
                          !.pid = IF c_status.pid = None THEN h[1] ELSE @]
            IN
            /\ last_status' = <<rec>>
            /\ connect_result' = <<rec>>
    /\ c_pc' = "idle"
    /\ c_status' = InitialStatus
    /\ w_deadline' = 0
    /\ w_delay' = WaitInitialDelay
    /\ TestUmgLeave
    /\ p_pc' = "connect_returned"
    /\ UNCHANGED now
    /\ UNCHANGED <<started_vpn, status_before, p_exit, p_raised, calls,
                   p_target, row_timestamp>>
    /\ UNCHANGED <<pollerVars, unitVars>>

\* mutant: only a recorded error counts as a failed connect
ConnectFailedByError(result) == result.error # None

\* poll_once: if not connect_result.get("is_connected"): raise
ConnectFailed(result) == ~result.is_connected

\* mutant: the teardown placed after the body instead of in a finally clause
TeardownOnReturnOnly(started, exit) == started /\ exit = "returned"

\* poll_once, finally clause: if started_vpn: vpn.disconnect()
TeardownNeeded(started, exit) == started

(***************************************************************************)
(* poll_once, lines 65-68: connect() has returned.                         *)
(***************************************************************************)
PollAfterConnect ==
    /\ p_pc = "connect_returned"
    /\ IF ConnectFailed(connect_result[1])
         THEN /\ p_pc' = "done"
              /\ p_exit' = "connect_failed"
              /\ p_raised' = "Unable to establish VPN tunnel before polling"
              /\ UNCHANGED started_vpn
         ELSE /\ p_pc' = "body"
              /\ started_vpn' = TRUE
              /\ UNCHANGED <<p_exit, p_raised>>
    /\ UNCHANGED <<status_before, connect_result, calls, p_target, row_timestamp>>
    /\ UNCHANGED <<verifyVars, hostVars, connVars>>
    /\ UNCHANGED <<pollerVars, unitVars>>

(***************************************************************************)
(* poll_once, lines 75-86: load the configuration, build the client, run   *)
(* the health probe; an unreachable device raises.                         *)
(***************************************************************************)
PollHealth ==
    /\ p_pc = "body"
    /\ \E outcome \in {"config_failed", "unreachable", "reachable"} :
         /\ IF outcome = "config_failed" THEN UNCHANGED calls ELSE Called("health")
         /\ IF outcome = "reachable"
              THEN /\ p_pc' = IF p_target # <<>> THEN "sleep" ELSE "read"
                   /\ UNCHANGED <<p_exit, p_raised>>
              ELSE /\ p_pc' = "finally"
                   /\ p_exit' = outcome
                   /\ p_raised' = IF outcome = "unreachable"
                                    THEN "UMG device unreachable"
                                    ELSE "configuration error"
    /\ UNCHANGED <<started_vpn, status_before, connect_result, p_target, row_timestamp>>
    /\ UNCHANGED <<verifyVars, hostVars, connVars>>
    /\ UNCHANGED <<pollerVars, unitVars>>

(***************************************************************************)
(* poll_once, lines 88-89: _sleep_until(scheduled_time), called without    *)
(* a stop event: sleep in slices until the target has come.                *)
\* mutant: the cycle does not wait for the target
SleepUntilSkipped(t, target) == t

\* _sleep_until without a stop event, lines 45-53: the clock when it returns
SleepUntil(t, target) == Max(t, target)

(***************************************************************************)
PollSleep ==
    /\ p_pc = "sleep"
    /\ now' = SleepUntil(now, ScheduledTime(p_target)[1].t)
    /\ p_pc' = "read"
    /\ UNCHANGED <<started_vpn, status_before, connect_result, p_exit,
                   p_raised, calls, p_target, row_timestamp>>
    /\ UNCHANGED <<v_pc, v_caller, timeout_s, min_attempts, deadline, attempts,
                   delay, ping_ok, tcp_ok, v_ret, v_log>>
    /\ UNCHANGED <<hostVars, connVars>>
    /\ UNCHANGED <<pollerVars, unitVars>>

(***************************************************************************)
(* poll_once, line 91: client.read_registers(), which raises               *)
(* ConnectionError once its retries are used up.                           *)
(***************************************************************************)
PollRead ==
    /\ p_pc = "read"
    /\ Called("read")
    /\ \E ok \in BOOLEAN :
         IF ok
           THEN /\ p_pc' = "export"
                /\ UNCHANGED <<p_exit, p_raised>>
           ELSE /\ p_pc' = "finally"
                /\ p_exit' = "read_failed"
                /\ p_raised' = "Modbus read exhausted retries"
    /\ UNCHANGED <<started_vpn, status_before, connect_result, p_target, row_timestamp>>
    /\ UNCHANGED <<verifyVars, hostVars, connVars>>
    /\ UNCHANGED <<pollerVars, unitVars>>

(***************************************************************************)
(* poll_once, lines 92-98: client.export_csv() and the return.             *)
(***************************************************************************)
PollExport ==
    /\ p_pc = "export"
    /\ Called("export")
    /\ \E ok \in BOOLEAN :
         IF ok
           THEN /\ p_exit' = "returned"
                /\ row_timestamp' =
                       <<ExportTimestamp(ScheduledTime(p_target), now)>>
                /\ UNCHANGED p_raised
           ELSE /\ p_exit' = "export_failed"
                /\ p_raised' = "export failed"
                /\ UNCHANGED row_timestamp
    /\ p_pc' = "finally"
    /\ UNCHANGED <<started_vpn, status_before, connect_result, p_target>>
    /\ UNCHANGED <<verifyVars, hostVars, connVars>>
    /\ UNCHANGED <<pollerVars, unitVars>>

(***************************************************************************)
(* VPNConnection.disconnect(), lines 106-121, with                         *)
(* OpenVPNManager.disconnect (lines 107-129) and stop_all (131-152).       *)
(*   "gui_missing":   find_openvpn_gui raises in manager.disconnect        *)
(*   "access_denied": process.terminate() raises psutil.AccessDenied,      *)
(*                    which manager.disconnect does not catch              *)
(*   "ok":            both manager calls return; a worker that cannot be   *)
(*                    terminated by stop_all is skipped                    *)
(* The finally clause resets _last_status in every case.                   *)
(***************************************************************************)
\* mutant: the reset placed after the manager calls instead of in a finally
\* clause
StatusAfterDisconnectOnSuccess(outcome, old) ==
    IF outcome = "ok" THEN <<DisconnectedStatus>> ELSE old

\* VPNConnection.disconnect, finally clause (lines 112-120)
StatusAfterDisconnect(outcome, old) == <<DisconnectedStatus>>

VpnDisconnect(outcome) ==
    /\ outcome = "access_denied" => proc # None
    /\ IF outcome = "ok"
         THEN /\ proc' \in {None, proc}
              /\ iface' \in {None, iface}
              /\ calls' = [calls EXCEPT !.disconnect = @ + 1, !.stop_all = @ + 1]
         ELSE /\ UNCHANGED hostVars
              /\ calls' = [calls EXCEPT !.disconnect = @ + 1]
    /\ last_status' = StatusAfterDisconnect(outcome, last_status)

(***************************************************************************)
(* poll_once, lines 99-101, the head of the finally clause: the duration   *)
(* since start_perf (the first statement of poll_once) is handed to        *)
(* _update_estimate.                                                       *)
(***************************************************************************)
PollUpdateEstimate ==
    /\ p_pc = "finally"
    /\ Called("update_estimate")
    /\ p_pc' = "teardown"
    /\ UNCHANGED <<started_vpn, status_before, connect_result, p_exit,
                   p_raised, p_target, row_timestamp>>
    /\ UNCHANGED <<verifyVars, hostVars, connVars>>
    /\ UNCHANGED <<pollerVars, unitVars>>

(***************************************************************************)
(* poll_once, lines 102-103: the rest of the finally clause.  An exception *)
(* raised by disconnect() replaces whatever the body was propagating.      *)
(***************************************************************************)
PollFinally ==
    /\ p_pc = "teardown"
    /\ IF TeardownNeeded(started_vpn, p_exit)
         THEN \E outcome \in {"ok", "gui_missing", "access_denied"} :
                /\ VpnDisconnect(outcome)
                /\ p_raised' = IF outcome = "ok" THEN p_raised ELSE outcome
         ELSE UNCHANGED <<hostVars, calls, last_status, p_raised>>
    /\ p_pc' = "done"
    /\ UNCHANGED <<started_vpn, status_before, connect_result, p_exit, p_target, row_timestamp>>
    /\ UNCHANGED <<c_pc, c_status, w_deadline, w_delay>>
    /\ UNCHANGED verifyVars
    /\ UNCHANGED <<pollerVars, unitVars>>

(***************************************************************************)
(* The caller takes poll_once's result; the next activation may begin.     *)
(***************************************************************************)
PollOnceEnd ==
    /\ p_pc = "done"
    /\ p_pc' = "idle"
    /\ started_vpn' = FALSE
    /\ status_before' = <<>>
    /\ connect_result' = <<>>
    /\ p_exit' = "none"
    /\ p_raised' = None
    /\ calls' = NoCalls
    /\ p_target' = <<>>
    /\ row_timestamp' = <<>>
    /\ last_status' = <<>>
    /\ now' = 0
    /\ UNCHANGED <<c_pc, c_status, w_deadline, w_delay>>
    /\ UNCHANGED <<v_pc, v_caller, timeout_s, min_attempts, deadline, attempts,
                   delay, ping_ok, tcp_ok, v_ret, v_log>>
    /\ UNCHANGED hostVars
    /\ UNCHANGED <<pollerVars, unitVars>>

ConnIdle ==
    /\ c_pc = "idle"
    /\ c_status = InitialStatus
    /\ w_deadline = 0
    /\ w_delay = WaitInitialDelay
    /\ last_status = <<>>

PollIdle ==
    /\ p_pc = "idle"
    /\ started_vpn = FALSE
    /\ status_before = <<>>
    /\ connect_result = <<>>
    /\ p_exit = "none"
    /\ p_raised = None
    /\ calls = NoCalls
    /\ p_target = <<>>
    /\ row_timestamp = <<>>

HostIdle ==
    /\ proc = None
    /\ iface = None

(***************************************************************************)
(* BackgroundPoller.  Every "with self._lock" block is one atomic action;  *)
(* what a thread does outside the lock is a step of its own.               *)
(***************************************************************************)
\* how many poll threads start() may spawn in one behaviour
MaxThreads == 2
\* largest finite cycles argument tried
MaxCycles == 1

Threads == 1..MaxThreads
Callers == {"c1", "c2"}

\* Thread.is_alive()
IsAlive(t) == t_pc[t] \notin {"unborn", "dead"}

AliveThreads == {t \in Threads : IsAlive(t)}

\* the thread is alive inside poll_loop: it has not left _run()'s try block
InLoop(t) == t_pc[t] \in {"top", "wake", "connecting", "sleeping", "reading",
                          "pause"}

LoopThreads == {t \in Threads : InLoop(t)}

\* is_running(): bool(self._thread and self._thread.is_alive())
IsRunning == \E t \in thread_ref : IsAlive(t)

\* the thread is inside poll_once, where nothing looks at the stop event
InCycle(t) == t_pc[t] \in {"connecting", "sleeping", "reading"}

\* argument cycles of poll_loop: None, or a count (0 runs no cycle)
CyclesChoices == {<<>>} \cup {<<n>> : n \in 0..MaxCycles}

\* mutant: the loop left by its while test only, one pause later
CyclesDoneAtLoopTest(n, cy) == cy # <<>> /\ n > cy[1]

\* poll_loop, line 142: if cycles is not None and executed >= cycles: break
CyclesDone(n, cy) == cy # <<>> /\ n >= cy[1]

\* poll_loop, line 118: while cycles is None or executed < cycles
CyclesLeft(n, cy) == cy = <<>> \/ n < cy[1]

\* mutant: start() leaves the previous error in place
ErrorAfterStartKept(old) == old

\* start(): self.last_error = None
ErrorAfterStart(old) == None

\* _run(): self.last_error = str(exc)
RecordedError(exc) == exc

\* stop(): the value returned after the join, whatever the join's outcome
StopResult(joined) == "True"

(***************************************************************************)
(* start(), lines 178-180: a poll thread is referenced and alive.          *)
(***************************************************************************)
StartConflict(c) ==
    /\ k_pc[c] = "idle"
    /\ IsRunning
    /\ k_pc' = [k_pc EXCEPT ![c] = "returned"]
    /\ k_ret' = [k_ret EXCEPT ![c] = "Polling already running"]
    /\ k_alive' = [k_alive EXCEPT ![c] = LoopThreads # {}]
    /\ UNCHANGED <<stop_event, thread_ref, last_error, last_payload, t_pc,
                   t_align, t_cycles, t_executed, late, k_join,
                   h_raised>>
    /\ UNCHANGED <<cycleVars, unitVars>>

(***************************************************************************)
(* start(), lines 178-190: clear the event and the error, create the       *)
(* thread, store and start it.                                             *)
(***************************************************************************)
StartSpawn(c) ==
    /\ k_pc[c] = "idle"
    /\ ~IsRunning
    /\ \E t \in Threads, cy \in CyclesChoices, al \in BOOLEAN :
         /\ t_pc[t] = "unborn"
         /\ \A u \in Threads : u < t => t_pc[u] # "unborn"
         /\ t_pc' = [t_pc EXCEPT ![t] = "top"]
         /\ t_align' = [t_align EXCEPT ![t] = al]
         /\ t_cycles' = [t_cycles EXCEPT ![t] = cy]
         /\ thread_ref' = {t}
    /\ stop_event' = FALSE
    /\ last_error' = ErrorAfterStart(last_error)
    /\ h_raised' = {}
    /\ k_pc' = [k_pc EXCEPT ![c] = "returned"]
    /\ k_ret' = [k_ret EXCEPT ![c] = "started"]
    /\ k_alive' = [k_alive EXCEPT ![c] = LoopThreads # {}]
    /\ UNCHANGED <<last_payload, t_executed, late, k_join>>
    /\ UNCHANGED <<cycleVars, unitVars>>

(***************************************************************************)
(* stop(), lines 193-195: no thread referenced, or it is not alive.        *)
(***************************************************************************)
StopIdle(c) ==
    /\ k_pc[c] = "idle"
    /\ ~IsRunning
    /\ k_pc' = [k_pc EXCEPT ![c] = "returned"]
    /\ k_ret' = [k_ret EXCEPT ![c] = "False"]
    /\ k_alive' = [k_alive EXCEPT ![c] = LoopThreads # {}]
    /\ UNCHANGED <<stop_event, thread_ref, last_error, last_payload, t_pc,
                   t_align, t_cycles, t_executed, late, k_join,
                   h_raised>>
    /\ UNCHANGED <<cycleVars, unitVars>>

(***************************************************************************)
(* stop(), lines 193-198: set the event, take the thread, leave the lock   *)
(* and join.                                                               *)
(***************************************************************************)
StopSignal(c) ==
    /\ k_pc[c] = "idle"
    /\ IsRunning
    /\ stop_event' = TRUE
    /\ k_join' = [k_join EXCEPT ![c] = thread_ref]
    /\ k_pc' = [k_pc EXCEPT ![c] = "joining"]
    /\ k_alive' = [k_alive EXCEPT ![c] = LoopThreads # {}]
    /\ UNCHANGED <<thread_ref, last_error, last_payload, t_pc, t_align,
                   t_cycles, t_executed, late, k_ret, h_raised>>
    /\ UNCHANGED <<cycleVars, unitVars>>

(***************************************************************************)
(* stop(), lines 198-201: the join returns because the thread has ended.   *)
(***************************************************************************)
StopJoined(c) ==
    /\ k_pc[c] = "joining"
    /\ \A t \in k_join[c] : ~IsAlive(t)
    /\ thread_ref' = {}
    /\ k_pc' = [k_pc EXCEPT ![c] = "returned"]
    /\ k_ret' = [k_ret EXCEPT ![c] = StopResult(TRUE)]
    /\ UNCHANGED <<stop_event, last_error, last_payload, t_pc, t_align,
                   t_cycles, t_executed, late, k_join, k_alive, h_raised>>
    /\ UNCHANGED <<cycleVars, unitVars>>

(***************************************************************************)
(* stop(), lines 198-201: join(timeout=5) gives up while the thread is     *)
(* still inside a poll cycle (a connection attempt, the sleep to the       *)
(* boundary and the register read each may last longer than 5 s).          *)
(***************************************************************************)
StopJoinTimeout(c) ==
    /\ k_pc[c] = "joining"
    /\ \E t \in k_join[c] : InCycle(t)
    /\ thread_ref' = {}
    /\ k_pc' = [k_pc EXCEPT ![c] = "returned"]
    /\ k_ret' = [k_ret EXCEPT ![c] = StopResult(FALSE)]
    /\ UNCHANGED <<stop_event, last_error, last_payload, t_pc, t_align,
                   t_cycles, t_executed, late, k_join, k_alive, h_raised>>
    /\ UNCHANGED <<cycleVars, unitVars>>

(***************************************************************************)
(* The request handler has answered; the caller may call again.            *)
(***************************************************************************)
CallerDone(c) ==
    /\ k_pc[c] = "returned"
    /\ k_pc' = [k_pc EXCEPT ![c] = "idle"]
    /\ k_ret' = [k_ret EXCEPT ![c] = "none"]
    /\ k_alive' = [k_alive EXCEPT ![c] = FALSE]
    /\ k_join' = [k_join EXCEPT ![c] = {}]
    /\ UNCHANGED <<stop_event, thread_ref, last_error, last_payload, t_pc,
                   t_align, t_cycles, t_executed, late, h_raised>>
    /\ UNCHANGED <<cycleVars, unitVars>>

threadFrame == <<thread_ref, k_pc, k_join, k_ret, k_alive>>

\* _run()'s try block is left: poll_loop returned
ToFinally(t) == t_pc' = [t_pc EXCEPT ![t] = "fin"]

(***************************************************************************)
(* poll_loop, lines 118-132, the head of an iteration: the cycles test,    *)
(* the stop test, and in aligned mode the entry of the wake-early sleep.   *)
(***************************************************************************)
LoopTop(t) ==
    /\ t_pc[t] = "top"
    /\ IF ~CyclesLeft(t_executed[t], t_cycles[t])
         THEN ToFinally(t)
         ELSE IF stop_event
           THEN ToFinally(t)
           ELSE t_pc' = [t_pc EXCEPT ![t] =
                           IF t_align[t] THEN "wake" ELSE "connecting"]
    /\ UNCHANGED <<stop_event, last_error, last_payload, t_align, t_cycles,
                   t_executed, late, h_raised>>
    /\ UNCHANGED threadFrame
    /\ UNCHANGED <<cycleVars, unitVars>>

(***************************************************************************)
(* _sleep_until(wait_start, stop_event), lines 44-51: one slice of at      *)
(* most a second, stop_event.wait(wait_for) timing out.                    *)
(***************************************************************************)
WakeSlice(t) ==
    /\ t_pc[t] = "wake"
    /\ ~stop_event
    /\ UNCHANGED <<pollerVars, unitVars>>
    /\ UNCHANGED <<cycleVars, unitVars>>

(***************************************************************************)
(* _sleep_until ends (the time has come, or the wait returned True), and   *)
(* poll_loop, lines 131-134, tests the event before the cycle.             *)
(***************************************************************************)
WakeDone(t) ==
    /\ t_pc[t] = "wake"
    /\ IF stop_event
         THEN ToFinally(t)
         ELSE t_pc' = [t_pc EXCEPT ![t] = "connecting"]
    /\ UNCHANGED <<stop_event, last_error, last_payload, t_align, t_cycles,
                   t_executed, late, h_raised>>
    /\ UNCHANGED threadFrame
    /\ UNCHANGED <<cycleVars, unitVars>>

(***************************************************************************)
(* A slice of a sleep inside poll_once: time.sleep in _wait_for_ip (line   *)
(* 155 of vpn_connection.py), in _test_umg_connectivity (line 178), or in  *)
(* _sleep_until(scheduled_time) (poll.py line 89, no stop event passed).   *)
(***************************************************************************)
CycleSlice(t) ==
    /\ t_pc[t] \in {"connecting", "sleeping"}
    /\ late' = (late \/ stop_event)
    /\ UNCHANGED <<stop_event, last_error, last_payload, t_pc, t_align,
                   t_cycles, t_executed, h_raised>>
    /\ UNCHANGED threadFrame
    /\ UNCHANGED <<cycleVars, unitVars>>

\* _run(), lines 219-221: except Exception as exc
Raise(t, exc) ==
    /\ last_error' = RecordedError(exc)
    /\ h_raised' = h_raised \cup {<<t, exc>>}
    /\ ToFinally(t)

(***************************************************************************)
(* poll_once, lines 58-86, comes to its end: the tunnel is up and the      *)
(* device reachable, or poll_once raises into _run()'s except clause (any  *)
(* exception of the cycle takes the same path; one text stands for them).  *)
(***************************************************************************)
CycleConnected(t) ==
    /\ t_pc[t] = "connecting"
    /\ \E outcome \in {"ok", "Unable to establish VPN tunnel before polling"} :
         IF outcome = "ok"
           THEN /\ t_pc' = [t_pc EXCEPT ![t] =
                              IF t_align[t] THEN "sleeping" ELSE "reading"]
                /\ UNCHANGED <<last_error, h_raised>>
           ELSE Raise(t, outcome)
    /\ UNCHANGED <<stop_event, last_payload, t_align, t_cycles, t_executed,
                   late>>
    /\ UNCHANGED threadFrame
    /\ UNCHANGED <<cycleVars, unitVars>>

(***************************************************************************)
(* poll_once, lines 88-89: the sleep to the boundary is over.              *)
(***************************************************************************)
CycleSlept(t) ==
    /\ t_pc[t] = "sleeping"
    /\ t_pc' = [t_pc EXCEPT ![t] = "reading"]
    /\ UNCHANGED <<stop_event, last_error, last_payload, t_align, t_cycles,
                   t_executed, late, h_raised>>
    /\ UNCHANGED threadFrame
    /\ UNCHANGED <<cycleVars, unitVars>>

\* executed += 1; where cycles is None nothing but the target time reads it,
\* and the count is kept up to MaxCycles only
Executed(n, cy) == IF cy = <<>> /\ n >= MaxCycles THEN n ELSE n + 1

(***************************************************************************)
(* poll_once, lines 91-103, and poll_loop, lines 136-145: the read and     *)
(* the export; the callback stores the payload, executed is counted, the   *)
(* loop ends when cycles are done, and non-aligned mode goes to sleep.     *)
(***************************************************************************)
CycleRead(t) ==
    /\ t_pc[t] = "reading"
    /\ \E outcome \in {"ok", "Modbus read exhausted retries"} :
         IF outcome = "ok"
           THEN LET n == Executed(t_executed[t], t_cycles[t]) IN
                /\ last_payload' = <<"payload">>
                /\ t_executed' = [t_executed EXCEPT ![t] = n]
                /\ IF CyclesDone(n, t_cycles[t])
                     THEN ToFinally(t)
                     ELSE t_pc' = [t_pc EXCEPT ![t] =
                                     IF t_align[t] THEN "top" ELSE "pause"]
                /\ UNCHANGED <<last_error, h_raised>>
           ELSE /\ Raise(t, outcome)
                /\ UNCHANGED <<last_payload, t_executed>>
    /\ UNCHANGED <<stop_event, t_align, t_cycles, late>>
    /\ UNCHANGED threadFrame
    /\ UNCHANGED <<cycleVars, unitVars>>

(***************************************************************************)
(* poll_loop, lines 147-150, non-aligned mode: one second of the           *)
(* inter-cycle sleep, after the stop test.                                 *)
(***************************************************************************)
PauseSlice(t) ==
    /\ t_pc[t] = "pause"
    /\ ~stop_event
    /\ UNCHANGED <<pollerVars, unitVars>>
    /\ UNCHANGED <<cycleVars, unitVars>>

(***************************************************************************)
(* poll_loop, lines 147-150: the stop test returns, or the interval is     *)
(* over and the loop goes on.                                              *)
(***************************************************************************)
PauseDone(t) ==
    /\ t_pc[t] = "pause"
    /\ IF stop_event
         THEN ToFinally(t)
         ELSE t_pc' = [t_pc EXCEPT ![t] = "top"]
    /\ UNCHANGED <<stop_event, last_error, last_payload, t_align, t_cycles,
                   t_executed, late, h_raised>>
    /\ UNCHANGED threadFrame
    /\ UNCHANGED <<cycleVars, unitVars>>

(***************************************************************************)
(* _run(), lines 222-224: with self._lock: self._thread = None.            *)
(***************************************************************************)
RunFinallyUnref(t) ==
    /\ t_pc[t] = "fin"
    /\ thread_ref' = {}
    /\ t_pc' = [t_pc EXCEPT ![t] = "fin_clear"]
    /\ UNCHANGED <<stop_event, last_error, last_payload, t_align, t_cycles,
                   t_executed, late, k_pc, k_join, k_ret, k_alive,
                   h_raised>>
    /\ UNCHANGED <<cycleVars, unitVars>>

(***************************************************************************)
(* _run(), line 225: self._stop_event.clear(), outside the lock; the       *)
(* thread ends.                                                            *)
(***************************************************************************)
RunFinallyClear(t) ==
    /\ t_pc[t] = "fin_clear"
    /\ stop_event' = FALSE
    /\ t_pc' = [t_pc EXCEPT ![t] = "dead"]
    /\ t_align' = [t_align EXCEPT ![t] = TRUE]
    /\ t_cycles' = [t_cycles EXCEPT ![t] = <<>>]
    /\ t_executed' = [t_executed EXCEPT ![t] = 0]
    /\ UNCHANGED <<last_error, last_payload, late, h_raised>>
    /\ UNCHANGED threadFrame
    /\ UNCHANGED <<cycleVars, unitVars>>

PollerIdle ==
    /\ stop_event = FALSE
    /\ thread_ref = {}
    /\ last_error = None
    /\ last_payload = <<>>
    /\ t_pc = [t \in Threads |-> "unborn"]
    /\ t_align = [t \in Threads |-> TRUE]
    /\ t_cycles = [t \in Threads |-> <<>>]
    /\ t_executed = [t \in Threads |-> 0]
    /\ late = FALSE
    /\ k_pc = [c \in Callers |-> "idle"]
    /\ k_join = [c \in Callers |-> {}]
    /\ k_ret = [c \in Callers |-> "none"]
    /\ k_alive = [c \in Callers |-> FALSE]
    /\ h_raised = {}

(***************************************************************************)
(* The RuntimeEstimate (poll.py lines 16-40).  The code computes in        *)
(* floating point; the model computes the same expression exactly, on      *)
(* integers counted in 1/Scale second: after n updates the estimate is a   *)
(* multiple of Scale / 10^n, so MaxUpdates updates stay exact.             *)
(***************************************************************************)
MaxUpdates == 3

Scale == 10 ^ MaxUpdates

\* _runtime_estimate_s = 15.0
InitialEstimate == 15

\* max(3.0, smoothed)
EstimateFloor == 3

\* the estimates a check starts from: the value the module is loaded with,
\* and the floor any run of short cycles settles on
StartEstimates == {InitialEstimate, EstimateFloor}

\* duration_s of a call, in seconds
DurationChoices == {-1, 0, 1, 4, 20}

Updaters == {"u1", "u2"}

Abs(x) == IF x < 0 THEN -x ELSE x

\* mutant: the two weights exchanged
SmoothedSwapped(old, d) ==
    Max(EstimateFloor * Scale, (3 * old + 7 * d * Scale) \div 10)

\* mutant: the smoothing without the floor
SmoothedOnly(old, d) == (7 * old + 3 * d * Scale) \div 10

\* _update_estimate, lines 39-40:
\*   smoothed = 0.7 * _runtime_estimate_s + 0.3 * duration_s
\*   _runtime_estimate_s = max(3.0, smoothed)
Smoothed(old, d) == Max(EstimateFloor * Scale, (7 * old + 3 * d * Scale) \div 10)

Pending == Cardinality({u \in Updaters : u_pc[u] = "locking"})

(***************************************************************************)
(* _update_estimate, lines 35-36: a duration that is not positive returns  *)
(* at once, without the lock.                                              *)
(***************************************************************************)
UpdateSkip(u, d) ==
    /\ u_pc[u] = "idle"
    /\ updates + Pending < MaxUpdates
    /\ d <= 0
    /\ updates' = updates + 1
    /\ e_last' = <<estimate, d>>
    /\ UNCHANGED <<estimate, u_pc, u_arg>>
    /\ UNCHANGED nonEstimateVars

(***************************************************************************)
(* _update_estimate, lines 35-37: a positive duration goes on to the lock. *)
(***************************************************************************)
UpdateEnter(u, d) ==
    /\ u_pc[u] = "idle"
    /\ updates + Pending < MaxUpdates
    /\ d > 0
    /\ u_pc' = [u_pc EXCEPT ![u] = "locking"]
    /\ u_arg' = [u_arg EXCEPT ![u] = d]
    /\ UNCHANGED <<estimate, updates, e_last>>
    /\ UNCHANGED nonEstimateVars

(***************************************************************************)
(* _update_estimate, lines 37-40: with _ESTIMATE_LOCK, read the estimate,  *)
(* smooth, floor and store.                                                *)
(***************************************************************************)
UpdateLocked(u) ==
    /\ u_pc[u] = "locking"
    /\ estimate' = Smoothed(estimate, u_arg[u])
    /\ e_last' = <<estimate, u_arg[u]>>
    /\ updates' = updates + 1
    /\ u_pc' = [u_pc EXCEPT ![u] = "idle"]
    /\ u_arg' = [u_arg EXCEPT ![u] = 0]
    /\ UNCHANGED nonEstimateVars

EstimateIdle ==
    /\ estimate = InitialEstimate * Scale
    /\ u_pc = [u \in Updaters |-> "idle"]
    /\ u_arg = [u \in Updaters |-> 0]
    /\ updates = 0
    /\ e_last = <<>>

(***************************************************************************)
(* VPNConnection objects with call histories of their own, on one host.    *)
(* A call is one step here: what the device answers does not change while  *)
(* a call runs, so a round of _test_umg_connectivity ends with the answer   *)
(* of its first attempt (success at once, or the same failure until the     *)
(* deadline).                                                               *)
(***************************************************************************)
Objects == {"a", "b"}

Answers == BOOLEAN \X BOOLEAN

\* _test_umg_connectivity, lines 166-181, under a constant answer
ProbeRound(ans) == <<ProbeSuccess(ans[1], ans[2]), ans[1], ans[2]>>

NoProbe == <<FALSE, FALSE, FALSE>>

\* mutant: a memoized status(), answering from the cache when there is one
StatusMemoized(last, pid, ip, ret) ==
    IF last # <<>> THEN last[1] ELSE StatusRecord(pid, ip, ret)

\* status(), lines 125-145: the record is built from the pid, the address
\* and the probe round; self._last_status is only written
StatusResult(last, pid, ip, ret) == StatusRecord(pid, ip, ret)

\* what was observed stays comparable only while the environment is the
\* same
Observed(same) ==
    IF same
      THEN UNCHANGED <<s_ret, s_seen>>
      ELSE /\ s_ret' = [o \in Objects |-> <<>>]
           /\ s_seen' = [o \in Objects |-> "none"]

(***************************************************************************)
(* VPNConnection.status(), lines 123-145.                                  *)
(***************************************************************************)
ObjStatus(o) ==
    /\ LET ret == IF proc # None /\ iface # None THEN ProbeRound(umg)
                                                 ELSE NoProbe
           rec == StatusResult(s_last[o], proc, iface, ret)
       IN  /\ s_ret' = [s_ret EXCEPT ![o] = <<rec>>]
           /\ s_last' = [s_last EXCEPT ![o] = <<rec>>]
    /\ s_seen' = [s_seen EXCEPT ![o] = s_call[o]]
    /\ s_call' = [s_call EXCEPT ![o] = "status"]
    /\ UNCHANGED <<umg, hostVars>>
    /\ UNCHANGED nonStatusVars

(***************************************************************************)
(* VPNConnection.connect(), lines 29-104: the worker may or may not come   *)
(* up and the adapter may or may not get an address; the record is stored  *)
(* in _last_status.                                                        *)
(***************************************************************************)
ObjConnect(o) ==
    /\ \E pid \in {None, ProfilePid}, ip \in {None, VpnIp} :
         /\ proc' = pid
         /\ iface' = ip
         /\ LET ret == ProbeRound(umg)
                rec == IF ip = None
                         THEN WithError([InitialStatus EXCEPT !.pid = pid],
                                        "timed out waiting for address")
                         ELSE [InitialStatus EXCEPT
                                 !.pid = pid,
                                 !.vpn_ip = ip,
                                 !.checks = Checks(ret[2], ret[3]),
                                 !.umg_ok = ret[1],
                                 !.is_connected = ConnectedFlag(ip, ret[1])]
            IN  s_last' = [s_last EXCEPT ![o] = <<rec>>]
    /\ s_call' = [s_call EXCEPT ![o] = "connect"]
    /\ Observed(<<proc', iface'>> = <<proc, iface>>)
    /\ UNCHANGED umg
    /\ UNCHANGED nonStatusVars

(***************************************************************************)
(* VPNConnection.disconnect(), lines 106-121.                              *)
(***************************************************************************)
ObjDisconnect(o) ==
    /\ proc' \in {None, proc}
    /\ iface' \in {None, iface}
    /\ s_last' = [s_last EXCEPT ![o] =
                    StatusAfterDisconnect("ok", s_last[o])]
    /\ s_call' = [s_call EXCEPT ![o] = "disconnect"]
    /\ Observed(<<proc', iface'>> = <<proc, iface>>)
    /\ UNCHANGED umg
    /\ UNCHANGED nonStatusVars

(***************************************************************************)
(* The device starts or stops answering the ping or the TCP connect.       *)
(***************************************************************************)
DeviceChange ==
    /\ umg' \in Answers \ {umg}
    /\ Observed(FALSE)
    /\ UNCHANGED <<s_last, s_call>>
    /\ UNCHANGED hostVars
    /\ UNCHANGED nonStatusVars

StatusIdle ==
    /\ umg = <<FALSE, FALSE>>
    /\ s_last = [o \in Objects |-> <<>>]
    /\ s_ret = [o \in Objects |-> <<>>]
    /\ s_call = [o \in Objects |-> "none"]
    /\ s_seen = [o \in Objects |-> "none"]

(***************************************************************************)
(* vpn.find_openvpn (vpn.py lines 183-243 and 329-353).  A path is named   *)
(* by where it was looked for; the host is the platform, the two override  *)
(* variables, the preferred-method variable and the set of paths that are  *)
(* existing executable files.                                              *)
(***************************************************************************)
GuiPaths == {"gui_override", "gui_programfiles", "gui_on_path"}

CliPaths == {"cli_override", "cli_on_path", "cli_installed"}

Hosts ==
    [windows : BOOLEAN,
     gui_override : {None, "gui_override"},
     cli_override : {None, "cli_override"},
     preferred : {None, "gui", "cli"},
     files : SUBSET (GuiPaths \cup CliPaths)]

\* the first candidate that is an existing file, or None
RECURSIVE FirstExisting(_, _)
FirstExisting(candidates, files) ==
    IF candidates = <<>> THEN None
    ELSE IF Head(candidates) \in files THEN Head(candidates)
    ELSE FirstExisting(Tail(candidates), files)

\* _find_openvpn_gui, lines 183-206
FindOpenvpnGui(h) ==
    IF h.gui_override # None /\ h.gui_override \in h.files
      THEN h.gui_override
      ELSE FirstExisting((IF h.windows THEN <<"gui_programfiles">> ELSE <<>>)
                           \o <<"gui_on_path">>, h.files)

\* _find_openvpn_cli, lines 209-243, called without a gui_hint
FindOpenvpnCli(h) ==
    FirstExisting((IF h.cli_override # None THEN <<h.cli_override>> ELSE <<>>)
                    \o (IF "cli_on_path" \in h.files THEN <<"cli_on_path">>
                                                     ELSE <<>>)
                    \o <<"cli_installed">>, h.files)

\* find_openvpn, lines 345-351
DetectedMethod(gui, cli) ==
    IF gui # None THEN "gui"
    ELSE IF cli # None THEN "cli"
    ELSE "missing"

(***************************************************************************)
(* find_openvpn, lines 338-342: the GUI is looked for on Windows only.     *)
(***************************************************************************)
FindGui ==
    /\ f_pc = "idle"
    /\ f_gui' = IF f_host.windows THEN FindOpenvpnGui(f_host) ELSE None
    /\ f_pc' = "gui"
    /\ UNCHANGED <<f_host, f_cli, f_out>>
    /\ UNCHANGED nonFindVars

(***************************************************************************)
(* find_openvpn, line 343.                                                 *)
(***************************************************************************)
FindCli ==
    /\ f_pc = "gui"
    /\ f_cli' = FindOpenvpnCli(f_host)
    /\ f_pc' = "cli"
    /\ UNCHANGED <<f_host, f_gui, f_out>>
    /\ UNCHANGED nonFindVars

(***************************************************************************)
(* find_openvpn, lines 345-353: choose the method and return.              *)
(***************************************************************************)
FindReturn ==
    /\ f_pc = "cli"
    /\ f_out' = <<[method |-> DetectedMethod(f_gui, f_cli),
                   gui_path |-> f_gui, cli_path |-> f_cli]>>
    /\ f_pc' = "done"
    /\ UNCHANGED <<f_host, f_gui, f_cli>>
    /\ UNCHANGED nonFindVars

FindIdle ==
    /\ f_host = [windows |-> FALSE, gui_override |-> None,
                 cli_override |-> None, preferred |-> None, files |-> {}]
    /\ f_pc = "idle"
    /\ f_gui = None
    /\ f_cli = None
    /\ f_out = <<>>

(***************************************************************************)
(* vpn.start_vpn (vpn.py lines 516-593; the statements after the return    *)
(* of line 587 are never reached).  A message is the set of the text       *)
(* fragments it contains.  The argument is a non-empty path.  The          *)
(* functions are modelled as their def statements define them; as the      *)
(* source stands, importing the module stops at line 377 with a NameError  *)
(* (LOG_TAIL_BYTES is bound nowhere), before start_vpn is defined.         *)
(***************************************************************************)
StartTimeout == 2

ProfileName == "Prognoza-UMG-509-PRO"

GuiPid == "pid-gui-session"

CliPid == "pid-cli-worker"

\* _resolve_ovpn_file, lines 52-73: the candidates, in the order they are
\* registered and tried
Candidates(in) ==
    <<"raw">>
      \o (IF in.suffix THEN <<>> ELSE <<"raw.ovpn">>)
      \o (IF in.absolute THEN <<>>
          ELSE <<"base/raw">>
                 \o (IF in.suffix THEN <<>> ELSE <<"base/raw.ovpn">>))

SeqRange(q) == {q[i] : i \in 1..Len(q)}

\* _resolve_ovpn_file: <<resolved path or None, attempted paths>>; after
\* the candidates, a file of the searched directories whose normalised
\* name equals the target's (lines 79-98)
ResolveOvpnFile(in) ==
    LET found == FirstExisting(Candidates(in), in.existing) IN
    <<IF found # None THEN found ELSE in.fuzzy, Candidates(in)>>

\* the arguments a call is checked with
StartInputs ==
    {in \in [suffix : BOOLEAN, absolute : BOOLEAN,
             existing : SUBSET {"raw", "raw.ovpn", "base/raw", "base/raw.ovpn"},
             fuzzy : {None, "secrets/similar.ovpn"},
             gui_profile : BOOLEAN,
             log : {"clean", "Access is denied"}] :
        /\ in.existing \subseteq SeqRange(Candidates(in))
        /\ Cardinality(in.existing) <= 1}

\* find_openvpn, lines 338-353, as one evaluation
FindOpenvpn(h) ==
    LET gui == IF h.windows THEN FindOpenvpnGui(h) ELSE None
        cli == FindOpenvpnCli(h)
    IN  [method |-> DetectedMethod(gui, cli), gui_path |-> gui,
         cli_path |-> cli]

\* _choose_method, lines 294-326: <<method, error message>>
ChooseMethod(det, profile_exists) ==
    IF det.method = "gui" /\ det.gui_path = None
      THEN <<"missing", {"OpenVPN GUI executable not found"}>>
    ELSE IF det.method = "gui" /\ ~profile_exists /\ det.cli_path # None
      THEN <<"cli", {}>>
    ELSE IF det.method = "gui" /\ ~profile_exists
      THEN <<"missing", {"OpenVPN GUI profile", ProfileName, "not found"}>>
    ELSE IF det.method = "cli" /\ det.cli_path = None
      THEN <<"missing", {"OpenVPN CLI executable not found"}>>
    ELSE IF det.method = "cli"
      THEN <<"cli", {}>>
    ELSE IF det.method = "missing"
      THEN <<"missing", {"OpenVPN executable not found"}>>
    ELSE <<det.method, {}>>

NoCommands == [gui_connect |-> 0, spawn |-> 0]

\* the message without the paths that were tried
NotFoundResultBare(det, attempted) ==
    [running |-> FALSE, reachable |-> FALSE, method |-> det.method,
     pid |-> None, message |-> {"Configuration file not found"}]

\* start_vpn, lines 524-534
NotFoundResult(det, attempted) ==
    [running |-> FALSE, reachable |-> FALSE, method |-> det.method,
     pid |-> None,
     message |-> {"Configuration file not found"}
                   \cup (IF attempted # <<>>
                           THEN {"Checked:"} \cup SeqRange(attempted)
                           ELSE {})]

\* start_vpn, lines 537-544
MissingResult(sel) ==
    [running |-> FALSE, reachable |-> FALSE, method |-> "missing",
     pid |-> None, message |-> {"OpenVPN executable not found"}]

\* start_vpn, lines 559-565
GuiConnectedResult ==
    [running |-> TRUE, reachable |-> TRUE, method |-> "gui", pid |-> GuiPid,
     message |-> {"VPN connected via GUI."}]

\* start_vpn, lines 587-593
UndeterminedResult(det) ==
    [running |-> FALSE, reachable |-> FALSE, method |-> det.method,
     pid |-> None,
     message |-> {"Unable to determine how to start OpenVPN."}]

\* start_vpn, line 548
GuiBranch(det, sel) == det.method = "gui" /\ det.gui_path # None

(***************************************************************************)
(* start_vpn, lines 518-544: resolve the path, detect, and return when     *)
(* there is no file or no method.                                          *)
(***************************************************************************)
StartBegin ==
    /\ sv_pc = "idle"
    /\ LET res == ResolveOvpnFile(sv_in)
           det == FindOpenvpn(f_host)
           sel == ChooseMethod(det, sv_in.gui_profile)
       IN  /\ sv_det' = <<det>>
           /\ IF res[1] = None
                THEN /\ sv_out' = <<NotFoundResult(det, res[2])>>
                     /\ sv_pc' = "done"
                     /\ UNCHANGED sv_sel
                ELSE IF sel[1] = "missing"
                  THEN /\ sv_out' = <<MissingResult(sel)>>
                       /\ sv_sel' = <<sel[1], sel[2]>>
                       /\ sv_pc' = "done"
                  ELSE /\ sv_sel' = <<sel[1], sel[2]>>
                       /\ sv_pc' = "chosen"
                       /\ UNCHANGED sv_out
    /\ UNCHANGED <<sv_in, sv_left, sv_cmds, sv_raised>>
    /\ UNCHANGED nonStartVars

(***************************************************************************)
(* start_vpn, lines 546-550: the deadline, and on the GUI branch the       *)
(* connect command.                                                        *)
(***************************************************************************)
StartGuiCommand ==
    /\ sv_pc = "chosen"
    /\ GuiBranch(sv_det[1], sv_sel)
    /\ sv_cmds' = [sv_cmds EXCEPT !.gui_connect = @ + 1]
    /\ sv_left' = StartTimeout
    /\ sv_pc' = "gui_wait"
    /\ UNCHANGED <<sv_in, sv_det, sv_sel, sv_out, sv_raised>>
    /\ UNCHANGED nonStartVars

(***************************************************************************)
(* start_vpn, lines 578-585, the else branch: the dict refers to the       *)
(* names state and failure_message, which the function never binds.        *)
(***************************************************************************)
StartElseBranch ==
    /\ sv_pc = "chosen"
    /\ ~GuiBranch(sv_det[1], sv_sel)
    /\ sv_raised' = "NameError: name 'state' is not defined"
    /\ sv_pc' = "done"
    /\ UNCHANGED <<sv_in, sv_det, sv_sel, sv_left, sv_cmds, sv_out>>
    /\ UNCHANGED nonStartVars

(***************************************************************************)
(* start_vpn, lines 552-565: one round of the wait loop: sleep a second,   *)
(* look for the session's process, probe the health host.                  *)
(***************************************************************************)
StartGuiWait ==
    /\ sv_pc = "gui_wait"
    /\ sv_left > 0
    /\ sv_left' = sv_left - 1
    /\ \E running \in BOOLEAN, reachable \in BOOLEAN :
         IF running /\ reachable
           THEN /\ sv_out' = <<GuiConnectedResult>>
                /\ sv_pc' = "done"
           ELSE UNCHANGED <<sv_out, sv_pc>>
    /\ UNCHANGED <<sv_in, sv_det, sv_sel, sv_cmds, sv_raised>>
    /\ UNCHANGED nonStartVars

(***************************************************************************)
(* start_vpn, lines 567-577 and 587-593: the deadline has passed.  A       *)
(* session that runs unreachable only sets a message; otherwise the CLI    *)
(* worker is spawned (with detection["cli_path"], which may be None: Popen *)
(* then raises).  Either way the function falls through to the return of   *)
(* line 587.                                                               *)
(***************************************************************************)
StartGuiAfter ==
    /\ sv_pc = "gui_wait"
    /\ sv_left = 0
    /\ \E running \in BOOLEAN, reachable \in BOOLEAN :
         IF running /\ ~reachable
           THEN /\ sv_out' = <<UndeterminedResult(sv_det[1])>>
                /\ UNCHANGED <<sv_cmds, sv_raised>>
           ELSE /\ sv_cmds' = [sv_cmds EXCEPT !.spawn = @ + 1]
                /\ IF sv_det[1].cli_path = None
                     THEN /\ sv_raised' = "FileNotFoundError"
                          /\ UNCHANGED sv_out
                     ELSE /\ sv_out' = <<UndeterminedResult(sv_det[1])>>
                          /\ UNCHANGED sv_raised
    /\ sv_pc' = "done"
    /\ UNCHANGED <<sv_in, sv_det, sv_sel, sv_left>>
    /\ UNCHANGED nonStartVars

StartIdle ==
    /\ sv_in = [suffix |-> TRUE, absolute |-> TRUE, existing |-> {},
                fuzzy |-> None, gui_profile |-> FALSE, log |-> "clean"]
    /\ sv_pc = "idle"
    /\ sv_det = <<>>
    /\ sv_sel = <<>>
    /\ sv_left = 0
    /\ sv_cmds = NoCommands
    /\ sv_out = <<>>
    /\ sv_raised = None

(***************************************************************************)
(* poll_loop with align_to_minute and no stop event (poll.py lines         *)
(* 114-150): the schedule of the cycles.  The wall clock is in seconds;    *)
(* the estimate read at line 129 is one of the values the RuntimeEstimate  *)
(* takes.                                                                  *)
(***************************************************************************)
MaxAlignCycles == 3

Intervals == {30, 60, 90, 120}

FirstReadings == {0, 1, 59, 60, 61}

CycleDurations == {5, 70}

EstimateValues == {InitialEstimate, EstimateFloor}

\* dt.replace(second=0, microsecond=0)
FloorMinute(t) == t - (t % 60)

\* _next_minute, lines 24-26
NextMinute(t) == FloorMinute(t) + 60

\* poll_loop, lines 127-128
TargetTime(base, interval, executed) == FloorMinute(base + interval * executed)

(***************************************************************************)
(* poll_loop, lines 118 and 122-129: the loop test, the clock reading,     *)
(* the base of the first pass, the target and the time to wake.            *)
(***************************************************************************)
AlignTop ==
    /\ a_pc = "top"
    /\ IF a_executed < MaxAlignCycles
         THEN LET base == IF a_base = <<>> THEN NextMinute(a_clock)
                                           ELSE a_base[1]
                  target == TargetTime(base, a_interval, a_executed)
              IN  /\ a_first' = IF a_first = <<>> THEN <<a_clock>> ELSE a_first
                  /\ a_base' = <<base>>
                  /\ a_target' = <<target>>
                  /\ \E e \in EstimateValues : a_wake' = <<target - e>>
                  /\ a_pc' = "sleep"
         ELSE /\ a_pc' = "done"
              /\ UNCHANGED <<a_first, a_base, a_target, a_wake>>
    /\ UNCHANGED <<a_interval, a_clock, a_executed>>
    /\ UNCHANGED nonAlignVars

(***************************************************************************)
(* poll_loop, line 130: _sleep_until(wait_start).                          *)
(***************************************************************************)
AlignSleep ==
    /\ a_pc = "sleep"
    /\ a_clock' = SleepUntil(a_clock, a_wake[1])
    /\ a_pc' = "poll"
    /\ UNCHANGED <<a_interval, a_first, a_base, a_executed, a_target, a_wake>>
    /\ UNCHANGED nonAlignVars

(***************************************************************************)
(* poll_loop, lines 134-143: poll_once(target_time) returns (it sleeps to  *)
(* the target before it reads), the payload is handed on, executed is      *)
(* incremented.                                                            *)
(***************************************************************************)
AlignCycle ==
    /\ a_pc = "poll"
    /\ \E d \in CycleDurations :
         a_clock' = SleepUntil(a_clock, a_target[1]) + d
    /\ a_executed' = a_executed + 1
    /\ a_pc' = "top"
    /\ UNCHANGED <<a_interval, a_first, a_base, a_target, a_wake>>
    /\ UNCHANGED nonAlignVars

AlignIdle ==
    /\ a_pc = "top"
    /\ a_interval = 60
    /\ a_clock = 0
    /\ a_first = <<>>
    /\ a_base = <<>>
    /\ a_executed = 0
    /\ a_target = <<>>
    /\ a_wake = <<>>

(***************************************************************************)
(* Activations of poll_once that overlap in time: the poll thread's cycle  *)
(* (poll.py line 134), the /run endpoint (main.py lines 92-99, run in the  *)
(* thread pool) and the command line's poll-once (__main__.py lines        *)
(* 72-74), next to the command line's VPN stop action (__main__.py lines   *)
(* 45-52).  Each builds its own VPNConnection on the one tunnel; poll_once *)
(* takes no lock.  The tunnel is up while its worker (proc) runs.          *)
(***************************************************************************)
Activations == {"cycle", "run", "cli"}

\* the tunnel's worker after disconnect() and stop_all(), which terminates
\* every openvpn.exe (openvpn_manager.py lines 131-152)
TornDown(worker) == None

(***************************************************************************)
(* poll_once, lines 60-64: status(); a connected tunnel is used as it is.  *)
(***************************************************************************)
ShareCheck(c) ==
    /\ y_pc[c] = "idle"
    /\ IF proc # None
         THEN y_pc' = [y_pc EXCEPT ![c] = "body"]
         ELSE y_pc' = [y_pc EXCEPT ![c] = "connecting"]
    /\ y_started' = [y_started EXCEPT ![c] = FALSE]
    /\ UNCHANGED proc
    /\ UNCHANGED nonShareVars

(***************************************************************************)
(* poll_once, lines 65-68: connect() returns; a failed connect raises      *)
(* before the try statement.                                               *)
(***************************************************************************)
ShareConnect(c) ==
    /\ y_pc[c] = "connecting"
    /\ \E ok \in BOOLEAN :
         IF ok
           THEN /\ proc' = ProfilePid
                /\ y_started' = [y_started EXCEPT ![c] = TRUE]
                /\ y_pc' = [y_pc EXCEPT ![c] = "body"]
           ELSE /\ y_pc' = [y_pc EXCEPT ![c] = "done"]
                /\ UNCHANGED <<proc, y_started>>
    /\ UNCHANGED nonShareVars

(***************************************************************************)
(* poll_once, lines 75-98: health probe, sleep, register read, export;     *)
(* whatever happens the finally clause comes next.                         *)
(***************************************************************************)
ShareRead(c) ==
    /\ y_pc[c] = "body"
    /\ y_pc' = [y_pc EXCEPT ![c] = "finally"]
    /\ UNCHANGED <<proc, y_started>>
    /\ UNCHANGED nonShareVars

(***************************************************************************)
(* poll_once, lines 99-103: if started_vpn: vpn.disconnect().              *)
(***************************************************************************)
ShareFinally(c) ==
    /\ y_pc[c] = "finally"
    /\ proc' = IF TeardownNeeded(y_started[c], "returned")
                 THEN TornDown(proc) ELSE proc
    /\ y_pc' = [y_pc EXCEPT ![c] = "done"]
    /\ UNCHANGED y_started
    /\ UNCHANGED nonShareVars

\* the caller has the result; the next request or cycle may begin
ShareReturn(c) ==
    /\ y_pc[c] = "done"
    /\ y_pc' = [y_pc EXCEPT ![c] = "idle"]
    /\ y_started' = [y_started EXCEPT ![c] = FALSE]
    /\ UNCHANGED proc
    /\ UNCHANGED nonShareVars

(***************************************************************************)
(* __main__._run_vpn_command("stop"), lines 45-52.                         *)
(***************************************************************************)
OperatorDisconnect ==
    /\ proc # None
    /\ proc' = TornDown(proc)
    /\ UNCHANGED shareVars
    /\ UNCHANGED nonShareVars

ShareIdle ==
    /\ y_pc = [c \in Activations |-> "idle"]
    /\ y_started = [c \in Activations |-> FALSE]

(***************************************************************************)
(* The accesses to the shared state of BackgroundPoller and to the         *)
(* RuntimeEstimate, with the two locks explicit.  Each actor runs the      *)
(* steps of its function in program order; a step acquires a lock,         *)
(* releases it, or reads or writes one shared object.                      *)
(***************************************************************************)
Actors == {"thread", "start", "stop", "reader"}

Locks == {"_lock", "_ESTIMATE_LOCK"}

\* the lock that is meant to guard the object
LockOf(object) ==
    IF object = "_runtime_estimate_s" THEN "_ESTIMATE_LOCK" ELSE "_lock"

Acquire(l) == [op |-> "acquire", on |-> l]

Release(l) == [op |-> "release", on |-> l]

Access(object) == [op |-> "access", on |-> object]

\* _get_estimate, lines 29-31
GetEstimate ==
    <<Acquire("_ESTIMATE_LOCK"), Access("_runtime_estimate_s"),
      Release("_ESTIMATE_LOCK")>>

\* _update_estimate, lines 37-40
UpdateEstimate ==
    <<Acquire("_ESTIMATE_LOCK"), Access("_runtime_estimate_s"),
      Access("_runtime_estimate_s"), Release("_ESTIMATE_LOCK")>>

\* _run, lines 210-225, around one cycle of poll_loop: the wake time
\* (line 129), poll_once's estimate update, then _store_payload (line 208)
\* or the except clause (line 221), then the finally clause
RunSteps(outcome) ==
    GetEstimate \o UpdateEstimate
      \o (IF outcome = "payload" THEN <<Access("last_payload")>>
                                 ELSE <<Access("last_error")>>)
      \o <<Acquire("_lock"), Access("_thread"), Release("_lock")>>

\* start, lines 177-190
StartSteps ==
    <<Acquire("_lock"), Access("_thread"), Access("last_error"),
      Access("_thread"), Release("_lock")>>

\* stop, lines 192-201
StopSteps ==
    <<Acquire("_lock"), Access("_thread"), Release("_lock"),
      Acquire("_lock"), Access("_thread"), Release("_lock")>>

\* main.poller_status, lines 118-125: is_running() (poll.py lines 203-205),
\* then the two attributes
ReaderSteps ==
    <<Acquire("_lock"), Access("_thread"), Release("_lock"),
      Access("last_payload"), Access("last_error")>>

Steps(actor, outcome) ==
    IF actor = "thread" THEN RunSteps(outcome)
    ELSE IF actor = "start" THEN StartSteps
    ELSE IF actor = "stop" THEN StopSteps
    ELSE ReaderSteps

NextStep(actor) == Steps(actor, x_outcome)[x_pc[actor]]

HasStep(actor) == x_pc[actor] <= Len(Steps(actor, x_outcome))

\* "with lock:" entered: the lock is free
LockAcquire(actor) ==
    /\ HasStep(actor)
    /\ NextStep(actor).op = "acquire"
    /\ x_holder[NextStep(actor).on] = None
    /\ x_holder' = [x_holder EXCEPT ![NextStep(actor).on] = actor]
    /\ x_pc' = [x_pc EXCEPT ![actor] = @ + 1]
    /\ UNCHANGED <<x_outcome, x_access>>
    /\ UNCHANGED <<cycleVars, pollerVars, estimateVars, statusVars, findVars,
                   startVars, alignVars, shareVars, cliVars>>

\* the "with" block is left
LockRelease(actor) ==
    /\ HasStep(actor)
    /\ NextStep(actor).op = "release"
    /\ x_holder' = [x_holder EXCEPT ![NextStep(actor).on] = None]
    /\ x_pc' = [x_pc EXCEPT ![actor] = @ + 1]
    /\ UNCHANGED <<x_outcome, x_access>>
    /\ UNCHANGED <<cycleVars, pollerVars, estimateVars, statusVars, findVars,
                   startVars, alignVars, shareVars, cliVars>>

\* a read or write of a shared object
SharedAccess(actor) ==
    /\ HasStep(actor)
    /\ NextStep(actor).op = "access"
    /\ x_access' = <<[actor |-> actor, object |-> NextStep(actor).on,
                      held |-> x_holder[LockOf(NextStep(actor).on)] = actor]>>
    /\ x_pc' = [x_pc EXCEPT ![actor] = @ + 1]
    /\ UNCHANGED <<x_outcome, x_holder>>
    /\ UNCHANGED <<cycleVars, pollerVars, estimateVars, statusVars, findVars,
                   startVars, alignVars, shareVars, cliVars>>

AccessIdle ==
    /\ x_outcome = "payload"
    /\ x_pc = [a \in Actors |-> 1]
    /\ x_holder = [l \in Locks |-> None]
    /\ x_access = <<>>

(***************************************************************************)
(* The CLI tunnel of vpn.py: _spawn_openvpn_cli starts a worker that       *)
(* appends to the log file and records its pid in the PID file;            *)
(* _build_cli_state reads both.  The log stays below the size of the tail  *)
(* that _read_log_tail returns, so the tail is the whole log.              *)
(***************************************************************************)
MaxLog == 3

MaxSessions == 2

LineKinds == {"blank", "plain", "success", "auth_failed", "sigterm",
              "success+sigterm"}

\* "initialization sequence completed" in lowered
HasSuccess(line) == line.kind \in {"success", "success+sigterm"}

\* _interpret_log, failure_patterns (lines 405-413) in their order: the
\* message of the first pattern the line carries, or None
FailureMessage(line) ==
    IF line.kind = "auth_failed" THEN "Authentication failed"
    ELSE IF line.kind \in {"sigterm", "success+sigterm"}
      THEN "Session terminated"
    ELSE None

IsBlank(line) == line.kind = "blank"

\* mutant: the lines scanned from the oldest on
RECURSIVE ScanForward(_, _, _)
ScanForward(lines, i, last_line) ==
    IF i > Len(lines) THEN <<FALSE, <<>>, last_line>>
    ELSE IF IsBlank(lines[i]) THEN ScanForward(lines, i + 1, last_line)
    ELSE LET last == IF last_line = <<>> THEN <<lines[i]>> ELSE last_line IN
         IF HasSuccess(lines[i]) THEN <<TRUE, <<>>, last>>
         ELSE IF FailureMessage(lines[i]) # None
           THEN <<FALSE, <<FailureMessage(lines[i]), lines[i]>>, last>>
         ELSE ScanForward(lines, i + 1, last)

\* _interpret_log, lines 415-428: for raw_line in reversed(lines), from
\* index i down; <<connected, error, last line>>, <<>> standing for a
\* None error and for a None last line
RECURSIVE ScanBackward(_, _, _)
ScanBackward(lines, i, last_line) ==
    IF i = 0 THEN <<FALSE, <<>>, last_line>>
    ELSE IF IsBlank(lines[i]) THEN ScanBackward(lines, i - 1, last_line)
    ELSE LET last == IF last_line = <<>> THEN <<lines[i]>> ELSE last_line IN
         IF HasSuccess(lines[i]) THEN <<TRUE, <<>>, last>>
         ELSE IF FailureMessage(lines[i]) # None
           THEN <<FALSE, <<FailureMessage(lines[i]), lines[i]>>, last>>
         ELSE ScanBackward(lines, i - 1, last)

\* mutant of InterpretLog
InterpretLogOldestFirst(lines) == ScanForward(lines, 1, <<>>)

\* _interpret_log, lines 399-428
InterpretLog(lines) == ScanBackward(lines, Len(lines), <<>>)

\* _is_process_alive(pid) for the pid of a worker
IsProcessAlive(pid) == pid = g_session /\ g_alive

\* mutant: the PID file is left where it is
PidFileKept(file, ok) == file

\* _remove_pid_file, lines 482-487: unlink, an OSError is swallowed
PidFileAfter(file, ok) == IF ok THEN <<>> ELSE file

\* mutant: the log alone decides
CliConnectedFromLog(running, from_log) == from_log

\* _build_cli_state, line 441
CliConnected(running, from_log) == running /\ from_log

\* _build_cli_state, lines 434-451, called without expected_pid; a pid is
\* <<>> for None, or <<n>>
BuildCliState(file, log, tcp) ==
    LET recorded == file
        running == recorded # <<>> /\ IsProcessAlive(recorded[1])
        interp == InterpretLog(log)
        connected == CliConnected(running, interp[1])
    IN  [pid |-> IF running THEN recorded ELSE <<>>,
         process_running |-> running,
         connected |-> connected,
         reachable |-> connected /\ tcp,
         last_error |-> interp[2],
         last_log_line |-> interp[3]]

\* vpn_status, lines 773-795: the dict of the CLI method
CliStatusResult(state) ==
    [running |-> state.connected, reachable |-> state.reachable,
     method |-> "cli", pid |-> state.pid]

\* the environment has changed: what was built before says nothing now
CliForget ==
    /\ g_state' = <<>>
    /\ g_out' = <<>>
    /\ g_unlink' = "none"

(***************************************************************************)
(* _spawn_openvpn_cli, lines 490-513: the log is opened for appending, the *)
(* worker started, its pid written to the PID file.                        *)
(***************************************************************************)
CliSpawn ==
    /\ g_session < MaxSessions
    /\ ~g_alive
    /\ g_session' = g_session + 1
    /\ g_alive' = TRUE
    /\ g_pidfile' = <<g_session + 1>>
    /\ CliForget
    /\ UNCHANGED g_log
    /\ UNCHANGED <<cycleVars, pollerVars, estimateVars, statusVars, findVars,
                   startVars, alignVars, shareVars, accessVars>>

\* the worker writes a line to its standard output, the log file
WorkerLogs ==
    /\ g_alive
    /\ Len(g_log) < MaxLog
    /\ \E k \in LineKinds :
         g_log' = Append(g_log, [kind |-> k, session |-> g_session])
    /\ CliForget
    /\ UNCHANGED <<g_session, g_alive, g_pidfile>>
    /\ UNCHANGED <<cycleVars, pollerVars, estimateVars, statusVars, findVars,
                   startVars, alignVars, shareVars, accessVars>>

\* the worker ends or is killed; what it logged before stays in the file
WorkerDies ==
    /\ g_alive
    /\ g_alive' = FALSE
    /\ CliForget
    /\ UNCHANGED <<g_log, g_session, g_pidfile>>
    /\ UNCHANGED <<cycleVars, pollerVars, estimateVars, statusVars, findVars,
                   startVars, alignVars, shareVars, accessVars>>

(***************************************************************************)
(* vpn_status, lines 773-795, on the CLI method: _build_cli_state (lines   *)
(* 431-451) with the removal of a stale PID file, then the dict.           *)
(***************************************************************************)
VpnStatusCli ==
    /\ \E tcp \in BOOLEAN, ok \in BOOLEAN :
         LET state == BuildCliState(g_pidfile, g_log, tcp) IN
         /\ g_state' = <<state>>
         /\ g_out' = <<CliStatusResult(state)>>
         /\ IF state.process_running
              THEN /\ UNCHANGED g_pidfile
                   /\ g_unlink' = "none"
              ELSE IF g_pidfile = <<>>
                THEN /\ UNCHANGED g_pidfile
                     /\ g_unlink' = "absent"
                ELSE /\ g_pidfile' = PidFileAfter(g_pidfile, ok)
                     /\ g_unlink' = IF ok THEN "removed" ELSE "failed"
    /\ UNCHANGED <<g_log, g_session, g_alive>>
    /\ UNCHANGED <<cycleVars, pollerVars, estimateVars, statusVars, findVars,
                   startVars, alignVars, shareVars, accessVars>>

CliIdle ==
    /\ g_log = <<>>
    /\ g_session = 0
    /\ g_alive = FALSE
    /\ g_pidfile = <<>>
    /\ g_unlink = "none"
    /\ g_state = <<>>
    /\ g_out = <<>>

UnitIdle ==
    /\ EstimateIdle
    /\ StatusIdle
    /\ FindIdle
    /\ StartIdle
    /\ AlignIdle
    /\ ShareIdle
    /\ AccessIdle
    /\ CliIdle

(***************************************************************************)
(* _test_umg_connectivity on its own, with arguments from bounded sets.    *)
(***************************************************************************)
InitVerify ==
    /\ VerifyIdle
    /\ HostIdle
    /\ ConnIdle
    /\ PollIdle
    /\ PollerIdle
    /\ UnitIdle
    /\ UnitIdle
    /\ UnitIdle

NextVerify ==
    \/ TestCall
    \/ TestUmgAttempt
    \/ TestUmgExhausted
    \/ TestReturn

SpecVerify == InitVerify /\ [][NextVerify]_vars

(***************************************************************************)
(* One poll cycle after the other, on a host in any state.                 *)
(***************************************************************************)
InitCycle ==
    /\ VerifyIdle
    /\ ConnIdle
    /\ PollIdle
    /\ proc \in {None, ProfilePid}
    /\ iface \in {None, VpnIp}
    /\ PollerIdle
    /\ UnitIdle
    /\ UnitIdle
    /\ UnitIdle

NextCycle ==
    \/ PollOnceBegin
    \/ StatusProbe
    \/ StatusNoProbe
    \/ StatusReturn
    \/ PollAfterStatus
    \/ ConnectSetupFails
    \/ ConnectStart
    \/ WaitForIpSleep
    \/ WaitForIpFound
    \/ WaitForIpTimeout
    \/ ConnectReturn
    \/ PollAfterConnect
    \/ PollHealth
    \/ PollSleep
    \/ PollRead
    \/ PollExport
    \/ PollUpdateEstimate
    \/ PollFinally
    \/ PollOnceEnd
    \/ TestUmgAttempt
    \/ TestUmgExhausted

SpecCycle == InitCycle /\ [][NextCycle]_vars

(***************************************************************************)
(* The background poller under concurrent start() and stop() calls.        *)
(***************************************************************************)
InitPoller ==
    /\ VerifyIdle
    /\ HostIdle
    /\ ConnIdle
    /\ PollIdle
    /\ PollerIdle
    /\ UnitIdle
    /\ UnitIdle
    /\ UnitIdle

NextPoller ==
    \/ \E c \in Callers : StartConflict(c)
    \/ \E c \in Callers : StartSpawn(c)
    \/ \E c \in Callers : StopIdle(c)
    \/ \E c \in Callers : StopSignal(c)
    \/ \E c \in Callers : StopJoined(c)
    \/ \E c \in Callers : StopJoinTimeout(c)
    \/ \E c \in Callers : CallerDone(c)
    \/ \E t \in Threads : LoopTop(t)
    \/ \E t \in Threads : WakeSlice(t)
    \/ \E t \in Threads : WakeDone(t)
    \/ \E t \in Threads : CycleSlice(t)
    \/ \E t \in Threads : CycleConnected(t)
    \/ \E t \in Threads : CycleSlept(t)
    \/ \E t \in Threads : CycleRead(t)
    \/ \E t \in Threads : PauseSlice(t)
    \/ \E t \in Threads : PauseDone(t)
    \/ \E t \in Threads : RunFinallyUnref(t)
    \/ \E t \in Threads : RunFinallyClear(t)

SpecPoller == InitPoller /\ [][NextPoller]_vars

(***************************************************************************)
(* poll_loop on its own: one thread that start() has just spawned, with    *)
(* any cycles argument up to MaxLoopCycles, and stop() called at any       *)
(* moment.                                                                 *)
(***************************************************************************)
MaxLoopCycles == 2

InitLoop ==
    /\ VerifyIdle
    /\ HostIdle
    /\ ConnIdle
    /\ PollIdle
    /\ UnitIdle
    /\ stop_event = FALSE
    /\ thread_ref = {1}
    /\ last_error = None
    /\ last_payload = <<>>
    /\ t_pc = [t \in Threads |-> IF t = 1 THEN "top" ELSE "unborn"]
    /\ t_align \in {[t \in Threads |-> IF t = 1 THEN al ELSE TRUE] :
                      al \in BOOLEAN}
    /\ t_cycles \in {[t \in Threads |-> IF t = 1 THEN cy ELSE <<>>] :
                       cy \in {<<>>} \cup {<<n>> : n \in 0..MaxLoopCycles}}
    /\ t_executed = [t \in Threads |-> 0]
    /\ late = FALSE
    /\ k_pc = [c \in Callers |-> "idle"]
    /\ k_join = [c \in Callers |-> {}]
    /\ k_ret = [c \in Callers |-> "none"]
    /\ k_alive = [c \in Callers |-> FALSE]
    /\ h_raised = {}

NextLoop ==
    \/ \E c \in Callers : StopIdle(c)
    \/ \E c \in Callers : StopSignal(c)
    \/ \E c \in Callers : StopJoined(c)
    \/ \E c \in Callers : StopJoinTimeout(c)
    \/ \E c \in Callers : CallerDone(c)
    \/ \E t \in Threads : LoopTop(t)
    \/ \E t \in Threads : WakeSlice(t)
    \/ \E t \in Threads : WakeDone(t)
    \/ \E t \in Threads : CycleSlice(t)
    \/ \E t \in Threads : CycleConnected(t)
    \/ \E t \in Threads : CycleSlept(t)
    \/ \E t \in Threads : CycleRead(t)
    \/ \E t \in Threads : PauseSlice(t)
    \/ \E t \in Threads : PauseDone(t)
    \/ \E t \in Threads : RunFinallyUnref(t)
    \/ \E t \in Threads : RunFinallyClear(t)

SpecLoop == InitLoop /\ [][NextLoop]_vars

(***************************************************************************)
(* _update_estimate under concurrent callers, from the estimates in        *)
(* StartEstimates.                                                         *)
(***************************************************************************)
InitEstimate ==
    /\ VerifyIdle
    /\ HostIdle
    /\ ConnIdle
    /\ PollIdle
    /\ PollerIdle
    /\ estimate \in {e * Scale : e \in StartEstimates}
    /\ u_pc = [u \in Updaters |-> "idle"]
    /\ u_arg = [u \in Updaters |-> 0]
    /\ updates = 0
    /\ e_last = <<>>
    /\ StatusIdle
    /\ FindIdle
    /\ StartIdle
    /\ AlignIdle
    /\ ShareIdle
    /\ AccessIdle
    /\ CliIdle

NextEstimate ==
    \/ \E u \in Updaters, d \in DurationChoices : UpdateSkip(u, d)
    \/ \E u \in Updaters, d \in DurationChoices : UpdateEnter(u, d)
    \/ \E u \in Updaters : UpdateLocked(u)

SpecEstimate == InitEstimate /\ [][NextEstimate]_vars

(***************************************************************************)
(* Two VPNConnection objects called in any order on a host in any state.   *)
(***************************************************************************)
InitStatus ==
    /\ VerifyIdle
    /\ ConnIdle
    /\ PollIdle
    /\ PollerIdle
    /\ EstimateIdle
    /\ proc \in {None, ProfilePid}
    /\ iface \in {None, VpnIp}
    /\ umg \in Answers
    /\ s_last = [o \in Objects |-> <<>>]
    /\ s_ret = [o \in Objects |-> <<>>]
    /\ s_call = [o \in Objects |-> "none"]
    /\ s_seen = [o \in Objects |-> "none"]
    /\ FindIdle
    /\ StartIdle
    /\ AlignIdle
    /\ ShareIdle
    /\ AccessIdle
    /\ CliIdle

NextStatus ==
    \/ \E o \in Objects : ObjStatus(o)
    \/ \E o \in Objects : ObjConnect(o)
    \/ \E o \in Objects : ObjDisconnect(o)
    \/ DeviceChange

SpecStatus == InitStatus /\ [][NextStatus]_vars

(***************************************************************************)
(* find_openvpn on any host.                                               *)
(***************************************************************************)
InitFind ==
    /\ VerifyIdle
    /\ HostIdle
    /\ ConnIdle
    /\ PollIdle
    /\ PollerIdle
    /\ EstimateIdle
    /\ StatusIdle
    /\ f_host \in Hosts
    /\ f_pc = "idle"
    /\ f_gui = None
    /\ f_cli = None
    /\ f_out = <<>>
    /\ StartIdle
    /\ AlignIdle
    /\ ShareIdle
    /\ AccessIdle
    /\ CliIdle

NextFind ==
    \/ FindGui
    \/ FindCli
    \/ FindReturn

SpecFind == InitFind /\ [][NextFind]_vars

(***************************************************************************)
(* start_vpn with any argument on any host without override variables.     *)
(***************************************************************************)
StartHosts ==
    {h \in Hosts : /\ h.gui_override = None
                   /\ h.cli_override = None
                   /\ h.preferred = None
                   /\ h.files \subseteq {"gui_programfiles", "cli_installed"}}

InitStart ==
    /\ VerifyIdle
    /\ HostIdle
    /\ ConnIdle
    /\ PollIdle
    /\ PollerIdle
    /\ EstimateIdle
    /\ StatusIdle
    /\ f_host \in StartHosts
    /\ f_pc = "idle"
    /\ f_gui = None
    /\ f_cli = None
    /\ f_out = <<>>
    /\ sv_in \in StartInputs
    /\ sv_pc = "idle"
    /\ sv_det = <<>>
    /\ sv_sel = <<>>
    /\ sv_left = 0
    /\ sv_cmds = NoCommands
    /\ sv_out = <<>>
    /\ sv_raised = None
    /\ AlignIdle
    /\ ShareIdle
    /\ AccessIdle
    /\ CliIdle

NextStart ==
    \/ StartBegin
    \/ StartGuiCommand
    \/ StartElseBranch
    \/ StartGuiWait
    \/ StartGuiAfter

SpecStart == InitStart /\ [][NextStart]_vars

(***************************************************************************)
(* The aligned loop started at any second of a minute with any interval.   *)
(***************************************************************************)
InitAlign ==
    /\ VerifyIdle
    /\ HostIdle
    /\ ConnIdle
    /\ PollIdle
    /\ PollerIdle
    /\ EstimateIdle
    /\ StatusIdle
    /\ FindIdle
    /\ StartIdle
    /\ a_pc = "top"
    /\ a_interval \in Intervals
    /\ a_clock \in FirstReadings
    /\ a_first = <<>>
    /\ a_base = <<>>
    /\ a_executed = 0
    /\ a_target = <<>>
    /\ a_wake = <<>>
    /\ ShareIdle
    /\ AccessIdle
    /\ CliIdle

NextAlign ==
    \/ AlignTop
    \/ AlignSleep
    \/ AlignCycle

SpecAlign == InitAlign /\ [][NextAlign]_vars

(***************************************************************************)
(* Overlapping activations on a tunnel that is down at first.              *)
(***************************************************************************)
InitShare ==
    /\ VerifyIdle
    /\ HostIdle
    /\ ConnIdle
    /\ PollIdle
    /\ PollerIdle
    /\ UnitIdle

NextShare ==
    \/ \E c \in Activations :
          \/ ShareCheck(c)
          \/ ShareConnect(c)
          \/ ShareRead(c)
          \/ ShareFinally(c)
          \/ ShareReturn(c)
    \/ OperatorDisconnect

SpecShare == InitShare /\ [][NextShare]_vars

(***************************************************************************)
(* The poll thread, start(), stop() and a status reader, interleaved.      *)
(***************************************************************************)
InitAccess ==
    /\ VerifyIdle
    /\ HostIdle
    /\ ConnIdle
    /\ PollIdle
    /\ PollerIdle
    /\ EstimateIdle
    /\ StatusIdle
    /\ FindIdle
    /\ StartIdle
    /\ AlignIdle
    /\ ShareIdle
    /\ CliIdle
    /\ x_outcome \in {"payload", "error"}
    /\ x_pc = [a \in Actors |-> 1]
    /\ x_holder = [l \in Locks |-> None]
    /\ x_access = <<>>

NextAccess ==
    \E actor \in Actors :
        \/ LockAcquire(actor)
        \/ LockRelease(actor)
        \/ SharedAccess(actor)

SpecAccess == InitAccess /\ [][NextAccess]_vars

(***************************************************************************)
(* Workers come and go, write their log, and the status is asked for.      *)
(***************************************************************************)
InitCli ==
    /\ VerifyIdle
    /\ HostIdle
    /\ ConnIdle
    /\ PollIdle
    /\ PollerIdle
    /\ UnitIdle

NextCli ==
    \/ CliSpawn
    \/ WorkerLogs
    \/ WorkerDies
    \/ VpnStatusCli

SpecCli == InitCli /\ [][NextCli]_vars

(***************************************************************************)
(* Claims.                                                                 *)
(***************************************************************************)

\* C1: at most one poll-loop thread is alive at any time, under every
\* interleaving of start(), stop() (its join timing out included) and the
\* threads' own exits; a start() that finds a poll thread alive raises
\* "Polling already running" and spawns nothing.  (Stated for the threads
\* that are still inside poll_loop; a thread in the last statements of
\* _run() is not counted.)
C1_AtMostOnePollThread ==
    /\ Cardinality(LoopThreads) <= 1
    /\ \A c \in Callers :
         (k_pc[c] = "returned" /\ k_alive[c]) => k_ret[c] # "started"

\* C2: stop() returns True only when the thread that was alive at the call
\* has terminated by the time stop() returns, and returns False exactly when
\* no poll thread was alive (inside poll_loop) at the call.
C2_StopReturnsTrueOnlyWhenStopped ==
    \A c \in Callers :
      /\ (k_pc[c] = "returned" /\ k_ret[c] = "True") =>
           \A t \in k_join[c] : ~IsAlive(t)
      /\ (k_pc[c] = "returned" /\ k_ret[c] = "False") => ~k_alive[c]
      /\ (k_pc[c] = "returned" /\ k_ret[c] = "True") => k_alive[c]

\* C3: when the cycle itself established the tunnel (started_vpn), poll_once
\* calls vpn.disconnect() exactly once before it exits, on every exit path,
\* and never before its finally clause.
C3_TeardownOnEveryExit ==
    /\ calls.disconnect <= 1
    /\ (p_pc = "done" /\ started_vpn) => calls.disconnect = 1
    /\ p_pc \notin {"done", "idle"} => calls.disconnect = 0

\* C3 witness: the register read failed in a cycle that had brought the
\* tunnel up, and the tunnel was torn down once.
C3_Witness ==
    /\ p_pc = "done"
    /\ started_vpn
    /\ p_exit = "read_failed"
    /\ calls.disconnect = 1

\* the statement of C4 for one status record
ConnectedOnlyIfVerified(r) ==
    r.is_connected =>
      /\ r.vpn_ip # None
      /\ r.checks.has /\ r.checks.ping /\ r.checks.tcp
      /\ r.umg_ok

\* C4: every status record returned by connect() or status() has
\* is_connected true only if vpn_ip is present, checks.ping and checks.tcp
\* are both true, and umg_ok is true.
C4_ConnectedOnlyIfVerified ==
    /\ \A i \in 1..Len(status_before) : ConnectedOnlyIfVerified(status_before[i])
    /\ \A i \in 1..Len(connect_result) : ConnectedOnlyIfVerified(connect_result[i])
    /\ \A i \in 1..Len(last_status) : ConnectedOnlyIfVerified(last_status[i])

\* C4 witness: connect() has returned a record that says connected.
C4_Witness ==
    /\ connect_result # <<>>
    /\ connect_result[1].is_connected
    /\ status_before # <<>>
    /\ ~status_before[1].is_connected

\* C5: connect() always returns a status record, and whichever step failed
\* the record has is_connected = false and a populated error field.
C5_FailureHasError ==
    (connect_result # <<>> /\ ~connect_result[1].is_connected) =>
      connect_result[1].error # None

\* C6: _test_umg_connectivity returns a failure only after the timeout has
\* elapsed and at least min_attempts attempts have been made; at least one
\* attempt is made whenever min_attempts >= 1.
C6_FailureOnlyAfterMinAttempts ==
    (v_pc = "done" /\ ~v_ret[1]) =>
      /\ now >= deadline
      /\ attempts >= min_attempts

\* C7: _test_umg_connectivity returns success only if the ping and the TCP
\* probe both succeeded in the final attempt; when no attempt has both
\* probes succeed it returns failure, and the pair returned with a failure
\* is never (true, true).
C7_SuccessOnlyWhenProbesAlign ==
    v_pc = "done" =>
      /\ Len(v_log) = attempts
      /\ v_ret[1] => /\ attempts >= 1
                     /\ v_log[attempts] = <<TRUE, TRUE>>
                     /\ v_ret[2] /\ v_ret[3]
      /\ (\A i \in 1..attempts : v_log[i] # <<TRUE, TRUE>>) => ~v_ret[1]
      /\ ~v_ret[1] => /\ ~(v_ret[2] /\ v_ret[3])
                      /\ now >= deadline
                      /\ attempts >= 1 => <<v_ret[2], v_ret[3]>> = v_log[attempts]

\* C7 witness: a failure is returned after attempts in which the ping
\* succeeded once and the TCP probe succeeded once, never both together.
C7_Witness ==
    /\ v_pc = "done"
    /\ ~v_ret[1]
    /\ \E i \in 1..attempts : v_log[i] = <<TRUE, FALSE>>
    /\ \E i \in 1..attempts : v_log[i] = <<FALSE, TRUE>>

\* C8: every blocking wait of a running poll thread re-checks the stop event
\* once per one-second slice: no thread begins another sleep slice while the
\* stop event is set.
C8_EveryWaitChecksStop == ~late

\* C9: when a cycle raises in the background thread, the thread invokes no
\* further cycle, last_error holds an exception text of a cycle that raised,
\* is_running() is false once the thread has left its finally lock block,
\* and this lasts until start() is called again, which clears last_error.
C9_FailureStopsLoop ==
    /\ \A e \in h_raised :
         /\ t_pc[e[1]] \in {"fin", "fin_clear", "dead"}
         /\ last_error \in {x[2] : x \in h_raised}
         /\ t_pc[e[1]] \in {"fin_clear", "dead"} => ~IsRunning
    /\ h_raised = {} => last_error = None

\* C9 witness: a thread died of a raised cycle and the error is on record,
\* after an earlier start() had already cleared one.
C9_Witness ==
    /\ \E e \in h_raised : t_pc[e[1]] = "dead" /\ last_error = e[2]
    /\ ~IsRunning
    /\ \E t \in Threads : t_pc[t] = "dead" /\ \A e \in h_raised : e[1] # t

\* C10: when connect() returns is_connected = false, poll_once raises,
\* having called connect() once, without health probe, register read or
\* export.
C10_ConnectFailureIsFatal ==
    (connect_result # <<>> /\ ~connect_result[1].is_connected) =>
      /\ p_pc \in {"connect_returned", "done"}
      /\ calls.connect = 1
      /\ calls.health = 0 /\ calls.read = 0 /\ calls.export = 0
      /\ p_pc = "done" => (p_exit = "connect_failed" /\ p_raised # None)

\* C10 witness: poll_once has raised after a connect() whose verification
\* ended without success.
C10_Witness ==
    /\ p_pc = "done"
    /\ p_exit = "connect_failed"
    /\ connect_result[1].vpn_ip # None
    /\ calls.connect = 1

\* C11: after VPNConnection.disconnect() has finished, whether the manager
\* calls succeeded or raised, _last_status has is_connected = false,
\* vpn_ip = None, pid = None and both checks false.
C11_DisconnectResetsStatus ==
    (p_pc = "done" /\ calls.disconnect > 0) =>
        /\ last_status # <<>>
        /\ ~last_status[1].is_connected
        /\ last_status[1].vpn_ip = None
        /\ last_status[1].pid = None
        /\ ~last_status[1].checks.ping
        /\ ~last_status[1].checks.tcp

\* a disconnect whose manager call raised (stop_all never ran) after a
\* connect() that had stored a connected status
C11_Witness ==
    /\ p_pc = "done"
    /\ calls.disconnect = 1
    /\ calls.stop_all = 0
    /\ connect_result # <<>>
    /\ connect_result[1].is_connected
    /\ last_status = <<DisconnectedStatus>>

\* C12: VPNConnection.disconnect() never propagates a failure of the tunnel
\* controller: a poll_once whose body completed returns normally, whatever
\* the teardown met.
C12_TeardownNeverRaises ==
    (p_pc = "done" /\ p_exit = "returned") => p_raised = None

\* C13: every VPNConnection.disconnect() call invokes OpenVPNManager.stop_all,
\* also when the profile-specific disconnect before it fails.
C13_EveryDisconnectStopsAll ==
    p_pc = "done" => calls.stop_all = calls.disconnect

\* C14: in aligned mode the exported row is stamped with the target boundary
\* poll_once was given (the same instant, in the local zone), never with the
\* time at which the export completed, also when the cycle has overrun the
\* boundary.
C14_RowStampedWithTarget ==
    (row_timestamp # <<>> /\ p_target # <<>>) =>
        /\ row_timestamp[1].t = p_target[1].t
        /\ row_timestamp[1].tz = "local"

\* an aligned cycle that exported after its boundary had passed
C14_Witness ==
    /\ p_pc = "done"
    /\ p_exit = "returned"
    /\ p_target # <<>>
    /\ row_timestamp # <<>>
    /\ now > p_target[1].t
    /\ row_timestamp[1].t = p_target[1].t

\* C15: every poll_once invocation updates the RuntimeEstimate exactly once,
\* whether it succeeds or fails at any step (VPN setup, health probe,
\* register read, export).
C15_EstimateUpdatedEveryCycle ==
    p_pc = "done" => calls.update_estimate = 1

\* C16: the RuntimeEstimate is never below its floor of 3.0 s, under any
\* sequence of _update_estimate calls by concurrent callers: a call with a
\* positive duration d sets it to max(3.0, 0.7*old + 0.3*d), a call with
\* d <= 0 leaves it unchanged.
C16_EstimateNeverBelowFloor ==
    /\ estimate >= EstimateFloor * Scale
    /\ e_last # <<>> =>
          IF e_last[2] > 0
            THEN /\ 10 * estimate >= 7 * e_last[1] + 3 * e_last[2] * Scale
                 /\ \/ 10 * estimate = 7 * e_last[1] + 3 * e_last[2] * Scale
                    \/ estimate = EstimateFloor * Scale
            ELSE estimate = e_last[1]

\* an update whose smoothed value was below the floor, made while the other
\* caller was between its duration test and the lock
C16_Witness ==
    /\ e_last # <<>>
    /\ e_last[2] > 0
    /\ 7 * e_last[1] + 3 * e_last[2] * Scale < 10 * EstimateFloor * Scale
    /\ estimate = EstimateFloor * Scale
    /\ \E u \in Updaters : u_pc[u] = "locking"

\* C17 as stated: every update with duration d shrinks |estimate - d| to
\* 0.7 of its previous value, without overshooting d, for every starting
\* estimate and every d.
C17_EveryUpdateContracts ==
    (e_last # <<>> /\ e_last[2] > 0) =>
        /\ 10 * Abs(estimate - e_last[2] * Scale)
              = 7 * Abs(e_last[1] - e_last[2] * Scale)
        /\ (e_last[1] >= e_last[2] * Scale) => (estimate >= e_last[2] * Scale)
        /\ (e_last[1] <= e_last[2] * Scale) => (estimate <= e_last[2] * Scale)

\* C17 amended: for a duration d at or above the floor of 3.0 s every update
\* shrinks |estimate - d| to 0.7 of its previous value without overshooting
\* d; for 0 < d < 3.0 the estimate moves toward d only as far as the floor
\* and never away from d; for d <= 0 it does not move.
C17_ContractsAboveFloor ==
    e_last # <<>> =>
        LET prev == e_last[1]
            d == e_last[2] * Scale
        IN  /\ (d >= EstimateFloor * Scale) =>
                  /\ 10 * Abs(estimate - d) = 7 * Abs(prev - d)
                  /\ (prev >= d) => (estimate >= d)
                  /\ (prev <= d) => (estimate <= d)
            /\ (d > 0 /\ d < EstimateFloor * Scale) =>
                  /\ estimate >= EstimateFloor * Scale
                  /\ estimate <= prev
                  /\ \/ 10 * (estimate - d) = 7 * (prev - d)
                     \/ estimate = EstimateFloor * Scale
            /\ (d <= 0) => estimate = prev

\* an update with a duration above the floor that moved the estimate closer
C17_Witness ==
    /\ e_last # <<>>
    /\ e_last[2] >= EstimateFloor
    /\ e_last[1] # e_last[2] * Scale
    /\ 10 * Abs(estimate - e_last[2] * Scale)
          = 7 * Abs(e_last[1] - e_last[2] * Scale)
    /\ updates = MaxUpdates

\* C18: poll_loop with a finite cycles = n invokes poll_once at most n times
\* and returns right after the n-th successful invocation (cycles = 0 invokes
\* none); with cycles = None the loop returns only once the stop event is
\* set (an exception of poll_once leaves it by propagating, not by
\* returning).
C18_CountedCycles ==
    \A t \in Threads :
        t_cycles[t] # <<>> =>
            /\ t_executed[t] <= t_cycles[t][1]
            /\ InCycle(t) => t_executed[t] < t_cycles[t][1]
            /\ (t_cycles[t][1] >= 1 /\ t_executed[t] = t_cycles[t][1]) =>
                  t_pc[t] \in {"fin", "fin_clear"}

C18_EndlessUntilStopped ==
    \A t \in Threads :
        (t_cycles[t] = <<>> /\ InLoop(t) /\ t_pc'[t] = "fin") =>
            (stop_event \/ h_raised' # h_raised)

C18_LoopRunsItsCycles ==
    /\ []C18_CountedCycles
    /\ [][C18_EndlessUntilStopped]_vars

\* a thread with a finite count that has just made its last successful
\* cycle and left the loop, the stop event not set
C18_Witness ==
    \E t \in Threads :
        /\ t_cycles[t] # <<>>
        /\ t_cycles[t][1] >= 2
        /\ t_executed[t] = t_cycles[t][1]
        /\ t_pc[t] = "fin"
        /\ ~stop_event
        /\ last_payload # <<>>

\* C19: what status() returns depends on the process table, the interface
\* addresses and the probe outcomes only: two VPNConnection objects return
\* the same record in the same environment, whatever _last_status each had
\* from its earlier connect(), disconnect() and status() calls.
C19_StatusIsStateless ==
    \A a, b \in Objects :
        (s_ret[a] # <<>> /\ s_ret[b] # <<>>) => s_ret[a] = s_ret[b]

\* one object asked right after its connect(), the other right after its
\* disconnect(), both while the tunnel is up and the device answers
C19_Witness ==
    /\ s_ret["a"] # <<>>
    /\ s_ret["b"] # <<>>
    /\ s_seen["a"] = "connect"
    /\ s_seen["b"] = "disconnect"
    /\ s_ret["a"] = s_ret["b"]
    /\ s_ret["a"][1].is_connected

\* C20: find_openvpn() returns method "cli" whenever a CLI executable is
\* found, also when a GUI executable is found too (the GUI is selected only
\* when it is explicitly preferred or when no CLI exists), reports both
\* paths, and returns "missing" only when neither executable is found.
C20_CliPreferredWhenBothFound ==
    f_pc = "done" =>
        LET r == f_out[1] IN
        /\ (r.cli_path # None /\ f_host.preferred # "gui") => r.method = "cli"
        /\ r.method = "gui" => r.gui_path # None
        /\ r.method = "missing" <=> (r.gui_path = None /\ r.cli_path = None)

(***************************************************************************)
(* C21: when detection reports the GUI with both a GUI path and a CLI      *)
(* path and the profile is in no GUI configuration directory, start_vpn    *)
(* falls back to the CLI: it issues no GUI connect command, spawns the     *)
(* CLI worker, and what it returns names the method 'cli' and the PID of   *)
(* the spawned process.                                                    *)
(***************************************************************************)
C21_Case ==
    /\ sv_pc = "done"
    /\ ResolveOvpnFile(sv_in)[1] # None
    /\ sv_det[1].method = "gui"
    /\ sv_det[1].gui_path # None
    /\ sv_det[1].cli_path # None
    /\ ~sv_in.gui_profile

C21_FallsBackToCli ==
    C21_Case =>
        /\ sv_cmds.gui_connect = 0
        /\ sv_cmds.spawn = 1
        /\ sv_out # <<>>
        /\ sv_out[1].method = "cli"
        /\ sv_out[1].running => sv_out[1].pid = CliPid

(***************************************************************************)
(* C22: when the supplied path resolves to no existing file, start_vpn     *)
(* returns running = false with a message that contains 'Configuration     *)
(* file not found' and 'Checked:' with every candidate path it tried, and  *)
(* it issues no GUI command and spawns no worker.                          *)
(***************************************************************************)
C22_MissingConfigReported ==
    (sv_pc # "idle" /\ ResolveOvpnFile(sv_in)[1] = None) =>
        /\ sv_pc = "done"
        /\ sv_raised = None
        /\ sv_out # <<>>
        /\ ~sv_out[1].running
        /\ "Configuration file not found" \in sv_out[1].message
        /\ "Checked:" \in sv_out[1].message
        /\ SeqRange(Candidates(sv_in)) \subseteq sv_out[1].message
        /\ sv_cmds = NoCommands

C22_Witness ==
    /\ sv_pc = "done"
    /\ ResolveOvpnFile(sv_in)[1] = None
    /\ Len(Candidates(sv_in)) = 4
    /\ sv_det[1].method = "gui"
    /\ sv_out # <<>>

(***************************************************************************)
(* C23: when detection reports the GUI with no CLI path and the profile    *)
(* is in no GUI configuration directory, start_vpn returns running = false *)
(* with method = 'gui' and a message that contains 'OpenVPN GUI profile'   *)
(* and names the profile, and it issues no connect command.                *)
(***************************************************************************)
C23_MissingGuiProfileReported ==
    (/\ sv_pc = "done"
     /\ ResolveOvpnFile(sv_in)[1] # None
     /\ sv_det[1].method = "gui"
     /\ sv_det[1].cli_path = None
     /\ ~sv_in.gui_profile) =>
        /\ sv_out # <<>>
        /\ ~sv_out[1].running
        /\ sv_out[1].method = "gui"
        /\ {"OpenVPN GUI profile", ProfileName} \subseteq sv_out[1].message
        /\ sv_cmds = NoCommands

(***************************************************************************)
(* C24: on the CLI method, when the log tail contains 'Access is denied'   *)
(* and the start does not succeed, start_vpn returns running = false with  *)
(* a message that contains 'Access is denied' and the run-as-Administrator *)
(* hint.                                                                   *)
(***************************************************************************)
C24_AccessDeniedHint ==
    (/\ sv_pc = "done"
     /\ ResolveOvpnFile(sv_in)[1] # None
     /\ sv_det[1].method = "cli"
     /\ sv_in.log = "Access is denied") =>
        /\ sv_raised = None
        /\ sv_out # <<>>
        /\ ~sv_out[1].running
        /\ {"Access is denied", "Administrator"} \subseteq sv_out[1].message

(***************************************************************************)
(* C26: connect() runs prepare profile, start tunnel, wait for the         *)
(* interface address, verify reachability, in this order: the wait is      *)
(* entered from the start only, the verification from a wait that gave an  *)
(* address only, and a step that fails ends the call not connected with    *)
(* none of the later steps executed.                                       *)
(***************************************************************************)
C26_Step ==
    /\ (c_pc' = "wait_ip" /\ c_pc # "wait_ip") =>
          /\ c_pc = "idle"
          /\ p_pc = "connect"
    /\ (c_pc' = "connect_verify" /\ c_pc # "connect_verify") =>
          /\ c_pc = "wait_ip"
          /\ c_status'.vpn_ip # None
    /\ (v_caller' = "connect" /\ v_pc' # "idle") =>
          /\ c_pc' = "connect_verify"
          /\ c_status'.vpn_ip # None
    /\ (connect_result' # connect_result /\ connect_result' # <<>>) =>
          LET r == connect_result'[1] IN
          /\ r.error # None =>
                /\ ~r.is_connected
                /\ r.checks = NoChecks
                /\ v_pc' = "idle"
                /\ c_pc' = "idle"
          /\ r.error \in {"prepare profile failed", "tunnel start failed"} =>
                /\ c_pc = "idle"
                /\ r.vpn_ip = None
                /\ r.pid = None
          /\ r.error = "timed out waiting for address" =>
                /\ c_pc = "wait_ip"
                /\ r.vpn_ip = None
          /\ r.error = None =>
                /\ c_pc = "connect_verify"
                /\ r.vpn_ip # None
                /\ r.checks.has
                /\ ~r.umg_ok => ~r.is_connected

C26_ConnectStepsInOrder == [][C26_Step]_vars

C26_Witness ==
    /\ connect_result # <<>>
    /\ connect_result[1].error = "timed out waiting for address"
    /\ connect_result[1].pid # None

(***************************************************************************)
(* C27: when status() reports the tunnel connected as poll_once begins,    *)
(* the cycle calls neither connect() nor disconnect() (nor stop_all), on   *)
(* every exit path.                                                        *)
(***************************************************************************)
C27_ForeignTunnelLeftUp ==
    (status_before # <<>> /\ status_before[1].is_connected) =>
        /\ calls.connect = 0
        /\ calls.disconnect = 0
        /\ calls.stop_all = 0
        /\ ~started_vpn

C27_Witness ==
    /\ p_pc = "done"
    /\ status_before # <<>>
    /\ status_before[1].is_connected
    /\ p_exit = "read_failed"

(***************************************************************************)
(* C28: with a target time, the register read never begins before the      *)
(* target: the read follows a health probe that found the device           *)
(* reachable and a sleep to the target; when the device is unreachable no  *)
(* register is read.                                                       *)
(***************************************************************************)
C28_ReadNotBeforeTarget ==
    /\ (p_target # <<>> /\ (p_pc = "read" \/ calls.read > 0)) =>
          /\ now >= ScheduledTime(p_target)[1].t
          /\ calls.health > 0
    /\ p_exit = "unreachable" => calls.read = 0

C28_Witness ==
    /\ p_target # <<>>
    /\ calls.read > 0
    /\ now = ScheduledTime(p_target)[1].t
    /\ now > 0

C25_Step ==
    (proc # None /\ proc' = None) =>
        \A c \in Activations : y_pc'[c] # "body"

C25_TunnelExclusivelyOwned == [][C25_Step]_vars

(***************************************************************************)
(* C30: every read and write of the poller's shared state (the thread      *)
(* handle, last_payload, last_error) and of the RuntimeEstimate is made by *)
(* an actor that holds the lock of that state.                             *)
(***************************************************************************)
C30_EveryAccessUnderLock ==
    x_access # <<>> => x_access[1].held

(***************************************************************************)
(* C33: once stop() has set the stop event for a running poll thread, the  *)
(* thread starts no further poll cycle: while the caller of stop() has not *)
(* yet answered, the thread it joins never enters poll_once again.         *)
(***************************************************************************)
C33_Targeted(t) ==
    \E c \in Callers : k_pc[c] \in {"joining", "returned"} /\ t \in k_join[c]

C33_Step ==
    \A t \in Threads :
        (C33_Targeted(t) /\ t_pc[t] # "connecting") => t_pc'[t] # "connecting"

C33_StopRequestIsObserved == [][C33_Step]_vars

(***************************************************************************)
(* C34: is_running() is never false while a poll thread spawned by         *)
(* start() can still invoke a poll cycle: at every step by which a thread  *)
(* enters poll_once, is_running() is true.                                 *)
(***************************************************************************)
C34_Step ==
    \A t \in Threads :
        (t_pc[t] # "connecting" /\ t_pc'[t] = "connecting"
           /\ t_pc[t] # "unborn") => IsRunning

C34_RunningWhileCyclesPossible == [][C34_Step]_vars

(***************************************************************************)
(* C35: when poll_once fails because connect() did not reach the           *)
(* connected state, no worker that this connect() launched is left         *)
(* running: it is gone, or the cycle has torn the tunnel down, when the    *)
(* failure is reported.                                                    *)
(***************************************************************************)
C35_FailedConnectLeavesNoWorker ==
    (/\ p_pc = "done"
     /\ p_exit = "connect_failed"
     /\ connect_result # <<>>
     /\ connect_result[1].pid # None) =>
        \/ proc = None
        \/ calls.disconnect > 0
        \/ calls.stop_all > 0

(***************************************************************************)
(* C36: in aligned mode, for every interval_s >= 1, the target times of    *)
(* the successive cycles of one poll_loop increase strictly.               *)
(***************************************************************************)
C36_Step ==
    (a_target # <<>> /\ a_pc = "top" /\ a_pc' = "sleep") =>
        a_target'[1] > a_target[1]

C36_TargetsStrictlyIncrease == [][C36_Step]_vars

(***************************************************************************)
(* C31: _interpret_log lets the most recent line that carries a marker     *)
(* decide: connected iff that line carries the success marker, otherwise   *)
(* its failure signature gives the diagnostic together with the line; no   *)
(* marker at all gives (false, no error); the last line reported is the    *)
(* most recent non-blank line.                                             *)
(***************************************************************************)
C31_NonBlank == {i \in 1..Len(g_log) : ~IsBlank(g_log[i])}

C31_Marked ==
    {i \in C31_NonBlank :
        HasSuccess(g_log[i]) \/ FailureMessage(g_log[i]) # None}

C31_Latest(S) == CHOOSE i \in S : \A j \in S : j <= i

C31_MostRecentMarkerDecides ==
    g_state # <<>> =>
        LET r == InterpretLog(g_log) IN
        /\ g_state[1].last_error = r[2]
        /\ g_state[1].last_log_line = r[3]
        /\ r[3] = IF C31_NonBlank = {} THEN <<>>
                  ELSE <<g_log[C31_Latest(C31_NonBlank)]>>
        /\ IF C31_Marked = {}
             THEN r[1] = FALSE /\ r[2] = <<>>
             ELSE LET line == g_log[C31_Latest(C31_Marked)] IN
                  /\ r[1] = HasSuccess(line)
                  /\ r[2] = IF HasSuccess(line) THEN <<>>
                            ELSE <<FailureMessage(line), line>>

C31_Witness ==
    /\ g_state # <<>>
    /\ Len(g_log) = 3
    /\ g_log[1].kind = "success"
    /\ g_log[2].kind = "sigterm"
    /\ g_log[3].kind = "blank"
    /\ g_state[1].last_error # <<>>

C37_ConnectedByOwnSuccessLine ==
    (g_state # <<>> /\ g_state[1].connected) =>
        \E i \in 1..Len(g_log) :
            /\ g_log[i].session = g_session
            /\ HasSuccess(g_log[i])

(***************************************************************************)
(* C38: every _CliState satisfies reachable => connected =>                *)
(* process_running => pid is not None, and vpn_status on the CLI method    *)
(* reports running = true only when the process is alive and the log       *)
(* shows the success marker.                                               *)
(***************************************************************************)
C38_CliStateChain ==
    g_state # <<>> =>
        /\ g_state[1].reachable => g_state[1].connected
        /\ g_state[1].connected => g_state[1].process_running
        /\ g_state[1].process_running => g_state[1].pid # <<>>
        /\ g_out[1].running =>
              /\ g_alive
              /\ \E i \in 1..Len(g_log) : HasSuccess(g_log[i])

C38_Witness ==
    /\ g_out # <<>>
    /\ g_out[1].running
    /\ g_state[1].reachable

====
